---- MODULE Spec2Model ----
(***************************************************************************)
(* Model of the Oxide plugin indexer (src/backend/src/index.ts):           *)
(*   - runOnce, the resumable crawl over search variants and pages, with   *)
(*     its two persisted files (state.json and oxide_plugins.json);        *)
(*   - githubFetchJson, the rate-limit aware HTTP client.                  *)
(* Spec      is the crawl (runOnce, process kills, restarts).              *)
(* SpecFetch is one call of githubFetchJson against an arbitrary server.   *)
(***************************************************************************)
EXTENDS Integers, Sequences, FiniteSets, TLC

(***************************************************************************)
(* Bounds of the model.  The source crawls 30 variants, asks for pages of  *)
(* 100 items and checkpoints every 50 processed items; the model keeps the *)
(* code's comparisons and scales these three sizes down.                   *)
(***************************************************************************)
NumVariants == 2        \* length of buildSearchVariants() (30 in the source)
NumItems == 2           \* files that exist upstream
PerPage == 2            \* per_page of fetchSearchPage (100 in the source)
CheckpointEvery == 2    \* processedCount % 50 in the source

MaxResponses == 7       \* responses one call of githubFetchJson is followed through
StartMs == 3000         \* Date.now() when the call starts

MaxWrites == 3          \* calls of atomicWrite one behaviour follows
ContentChunks == 2      \* write(2) calls one writeFileSync takes

MaxCycles == 2          \* calls of runOnce one process is followed through

MaxDecls == 2           \* declarations in one plugin file

MaxTokenLife == 3       \* minutes an installation token lives (60 at GitHub)
MaxClock == 6           \* minutes a process is followed for

NumRepos == 2           \* repositories the input files can name
MaxSessions == 3        \* calls of crawlRepositories that are followed

\* Program constants.
PageCap == 10           \* while (state.currentPage <= 10)
MaxAttempts == 6        \* if (attempt >= 6)
SafetyMarginMs == 1500  \* ... + 1500
BackoffStepMs == 5000   \* 5000 * attempt
BackoffCapMs == 120000  \* Math.min(120000, ...)
MinRetryAfterMs == 1000 \* Math.max(1000, ...)
DefaultRetryAfter == 10 \* res.headers.get("Retry-After") ?? "10"
RefreshEarlyMin == 5    \* expiresAt.setMinutes(expiresAt.getMinutes() - 5)

SEARCH_QUERY == "namespace Oxide.Plugins in:file language:C# extension:cs"

VARIABLES
  \* ---- persisted files (output directory) ----
  stateFile,      \* state.json: <<>> when absent, <<IndexerState>> otherwise
  outFile,        \* oxide_plugins.json: <<>> when absent, <<payload>> otherwise
  \* ---- the running runOnce() ----
  pc,             \* position in runOnce; "idle" when no process is running
  state,          \* let state: IndexerState
  existingMap,    \* const existingMap: Map<string, IndexedPlugin>, in insertion order
  variantIndex,   \* loop variable of the variant loop
  items,          \* items of the page being processed
  itemIdx,        \* position of the item loop in items (1-based)
  processedCount, newEntries, lastFlushedNewEntries,
  now,            \* logical clock behind new Date()
  \* ---- observations of the current run (history) ----
  resumeAt,       \* <<[variant, page]>> loaded from state.json, until the run's first
                  \* fetchSearchPage request; <<>> otherwise
  loadedSeen,     \* the seenKeys loaded from state.json
  failed,         \* a search request of this run has thrown
  mapped,         \* keys of loadedSeen handed to mapItemToIndexedPlugin in this run
  found,          \* keys for which mapItemToIndexedPlugin returned in this run
  errAt,          \* <<>> or <<[variant, page]>>: first page whose fetch threw in this run
  closed,         \* variants that returned a short page (1..PerPage-1 items) in this run
  allKnown,       \* every item returned so far in this run was in the index file
  startedFrom,    \* what runOnce found in state.json when it began: "absent",
                  \* "unparseable", "version" (not "1.0") or "state"; "" before
  lastReq,        \* <<>> or <<[variant, page]>>: last fetchSearchPage request of this run
  ordered,        \* each fetchSearchPage request of this run came after the one before
  outcome,        \* how the last turn of the page loop went: "count0", "countErr",
                  \* "pageErr", "empty", "items"; "none" before the first
  expect,         \* <<[variant, page]>> a full page has announced as the next one,
                  \* until the next fetchSearchPage request
  flushes,        \* index files written in this run
  repoFetches,    \* repositories fetched by this process, in order
  watch,          \* which observations this specification records
  \* ---- one call of githubFetchJson(url) ----
  fpc,            \* "off", "request" (fetch(url) is being issued), "returned", "thrown"
  attempt,        \* the parameter attempt of the current (recursive) call
  result,         \* what the call returned or threw
  \* ---- observations of that call (history) ----
  requests,       \* fetch(url) calls issued so far
  sleeps,         \* sleep() calls made so far
  secondary,      \* secondary-limit 403 responses received so far
  notBefore,      \* latest reset time (ms) announced by a primary-limit 403 so far
  prior429,       \* every response before the last one had status 429
  lastRes,        \* the last response received: <<>> or <<response>>
  \* ---- one writer calling atomicWrite(filePath, content) ----
  disk,           \* path -> <<>> when absent, <<[doc, chunks]>> otherwise
  wpc,            \* "idle", "open", "writing", "rename", "down" (the process crashed)
  filePath,       \* the parameter filePath of the current call
  content,        \* the parameter content of the current call (a document number)
  previous,       \* what filePath held when the current call began
  \* ---- run(), the orchestrator of one process ----
  rpc,            \* "off" (no process), "auth", "call" (about to call runOnce),
                  \* "running" (inside runOnce), "sleep" (between two cycles)
  CONTINUOUS,     \* the process's CONTINUOUS setting
  exitCode,       \* <<>> while no process has exited, <<code>> of the last exit
  cycle,          \* calls of runOnce this process has made
  naps,           \* inter-cycle sleeps this process has finished
  \* ---- mapItemToIndexedPlugin naming one item ----
  decls,          \* the declarations the item's file is made of, in order
  ppc,            \* "content" (the file is being fetched), "named", "unread"
  pluginName,     \* let pluginName
  pluginAuthor,   \* let pluginAuthor
  \* ---- the token of the requests ----
  tpc,            \* "off", "auth" (run() asks for the token), "crawl", "exit"
  clock,          \* minutes since the process started
  GITHUB_TOKEN,   \* let GITHUB_TOKEN: <<>> or <<[kind, expires]>>
  cachedToken,    \* GitHubAppAuth.cachedToken: <<>> or <<[token, expiresAt]>>
  lastSent,       \* the last request sent: <<>> or <<[token, at]>>
  \* ---- the repository crawler (repository-crawler.ts) ----
  crawlerStateFile,   \* crawler_state.json: <<>> when absent, <<CrawlerState>> otherwise
  cpc,                \* "off" (no process), "ready" (constructed), "mark", "clone",
                      \* "save", "finish", "returned"
  crawlerState,       \* this.state
  uniqueRepositories, \* let uniqueRepositories, after the duplicates are removed
  newRepositories,    \* const newRepositories
  repoIndex,          \* the loop variable i, counted from 1
  results,            \* const results: RepositoryCrawlResult[]
  sessionStarted,     \* const sessionStarted: the number of the call
  \* ---- observations of the repository crawler (history) ----
  clones,             \* repository -> clones started so far, by any process
  processedAtCall,    \* keys of processed_repositories when the call began
  intact              \* no saveState has been cut short by a kill so far

files == <<stateFile, outFile>>
counters == <<processedCount, newEntries, lastFlushedNewEntries>>
page == <<items, itemIdx>>
resumeObs == <<resumeAt, loadedSeen, failed, mapped>>
crawlObs == <<found, closed, allKnown>>
orderObs == <<lastReq, ordered, outcome, expect>>
moreObs == <<startedFrom, orderObs, flushes, repoFetches>>
observations == <<resumeObs, crawlObs, errAt, moreObs>>

crawlVars == <<files, pc, state, existingMap, variantIndex, page, counters, observations>>

\* What one call of githubFetchJson has done so far.
fetchObs == <<requests, sleeps, secondary, notBefore, prior429, lastRes>>
fetchVars == <<fpc, attempt, result, fetchObs>>

\* What one call of atomicWrite works on.
writeVars == <<disk, wpc, filePath, content, previous>>

\* What mapItemToIndexedPlugin names an item from, and the names.
parseVars == <<decls, ppc, pluginName, pluginAuthor>>

\* What run() keeps around the cycles.
runVars == <<rpc, CONTINUOUS, exitCode, cycle, naps>>

\* The token run() obtains and the requests that carry it.
tokenVars == <<tpc, clock, GITHUB_TOKEN, cachedToken, lastSent>>

\* What only the specifications of the other components touch.
\* What the repository crawler works on.
repoVars == <<crawlerStateFile, cpc, crawlerState, uniqueRepositories, newRepositories,
              repoIndex, results, sessionStarted, clones, processedAtCall, intact>>

apart == <<tokenVars, repoVars>>

\* What neither the crawl nor a call of githubFetchJson touches.
aside == <<watch, writeVars, runVars, parseVars, apart>>

\* What the crawl leaves alone.
others == <<aside, fetchVars>>

vars == <<crawlVars, now, others>>

(***************************************************************************)
(* Upstream: the files the code search can return.  Item i is the file at  *)
(* path PathOf(i) of repository RepoOf(i), with content hash 1; two files  *)
(* per repository.  Names are numbered in locale order.                    *)
(***************************************************************************)
RepoOf(i) == ((i - 1) \div 2) + 1
PathOf(i) == ((i - 1) % 2) + 1
SearchItem(i) == [full_name |-> RepoOf(i), path |-> PathOf(i), sha |-> 1]

\* What one search page can hold: lo..hi distinct items, in upstream order.
PagesOfLength(n) ==
  {[k \in 1..n |-> SearchItem(ids[k])] :
     ids \in {f \in [1..n -> 1..NumItems] : \A a, b \in 1..n : a < b => f[a] < f[b]}}

Pages(lo, hi) == UNION {PagesOfLength(n) : n \in lo..hi}

(***************************************************************************)
(* Keys.  The code joins the three parts with '#'; repository names and    *)
(* hashes hold no '#', so the joined string determines the triple and is   *)
(* modelled by it.                                                         *)
(***************************************************************************)
itemKey(item) == <<item.full_name, item.path, item.sha>>

indexedKeyWithTime(p) == <<p.full_name, p.path, p.sha, p.indexed_at>>
indexedKey(p) == <<p.full_name, p.path, p.sha>>

Triple(p) == <<p.full_name, p.path, p.sha>>

\* Map<string, IndexedPlugin> as the sequence of its values in insertion order.
MapHas(map, p) == \E i \in DOMAIN map : indexedKey(map[i]) = indexedKey(p)

MapSet(map, p) ==
  IF MapHas(map, p)
  THEN [i \in DOMAIN map |-> IF indexedKey(map[i]) = indexedKey(p) THEN p ELSE map[i]]
  ELSE Append(map, p)

RECURSIVE MapFromItems(_, _)
MapFromItems(map, its) ==
  IF its = <<>> THEN map ELSE MapFromItems(MapSet(map, Head(its)), Tail(its))

loadExistingOutput == IF outFile = <<>> THEN <<>> ELSE MapFromItems(<<>>, outFile[1].items)

(***************************************************************************)
(* writeUnifiedOutput: Array.prototype.sort (stable) with the comparator   *)
(* indexed_at descending, then full_name, then path.                       *)
(***************************************************************************)
Compare(a, b) ==
  IF a.indexed_at # b.indexed_at THEN b.indexed_at - a.indexed_at
  ELSE IF a.full_name = b.full_name THEN a.path - b.path
  ELSE a.full_name - b.full_name

RECURSIVE InsertSorted(_, _)
InsertSorted(s, x) ==
  IF s = <<>> THEN <<x>>
  ELSE IF Compare(Head(s), x) <= 0 THEN <<Head(s)>> \o InsertSorted(Tail(s), x)
  ELSE <<x>> \o s

RECURSIVE SortItems(_, _)
SortItems(sorted, rest) ==
  IF rest = <<>> THEN sorted ELSE SortItems(InsertSorted(sorted, Head(rest)), Tail(rest))

writeUnifiedOutput(map, query, t) ==
  LET allItems == SortItems(<<>>, map)
  IN  <<[generated_at |-> t, query |-> query, count |-> Len(allItems), items |-> allItems]>>

saveState(s) == <<s>>

FreshState ==
  [version |-> "1.0", currentVariant |-> 0, currentPage |-> 1, seenKeys |-> {},
   repoCache |-> {}, lastFullScanAt |-> "null", query |-> SEARCH_QUERY]

\* A state.json that JSON.parse rejects (cut short, or not JSON at all).
Unparseable == [text |-> "{ \"version\": "]

\* loadState(): null when the file is absent or JSON.parse throws.
loadState == IF stateFile = <<>> \/ stateFile[1] = Unparseable THEN <<>> ELSE stateFile

\* if (!state || state.version !== "1.0")
NeedsFreshIfAbsent(s) == s = <<>>
NeedsFresh(s) == s = <<>> \/ s[1].version # "1.0"

\* What runOnce finds in state.json.
FoundInStateFile ==
  IF stateFile = <<>> THEN "absent"
  ELSE IF stateFile[1] = Unparseable THEN "unparseable"
  ELSE IF stateFile[1].version # "1.0" THEN "version"
  ELSE "state"

IndexKeys(f) == IF f = <<>> THEN {} ELSE {indexedKey(f[1].items[i]) : i \in DOMAIN f[1].items}

(***************************************************************************)
(* parsePluginInfo and the naming of an item                               *)
(*                                                                         *)
(* The decoded file is a sequence of tokens: white space, a word (\w+), a  *)
(* string literal (v is what stands between the quotes) or one other       *)
(* character.  The two regular expressions are matched token by token,     *)
(* leftmost match first, as String.prototype.match does.                   *)
(***************************************************************************)
Tok(t, v) == [t |-> t, v |-> v]
Ws == Tok("ws", " ")
Word(v) == Tok("word", v)
Str(v) == Tok("str", v)
Sym(v) == Tok("sym", v)

\* The declarations a plugin file is made of here, by kind.
Declaration(kind) ==
  CASE kind = "info2" ->      \* [Info("Backpack", "Ann")]
         <<Sym("["), Word("Info"), Sym("("), Str("Backpack"), Sym(","), Ws, Str("Ann"),
           Sym(")"), Sym("]")>>
    [] kind = "info3" ->      \* [Info("Vault", "Bob", "1.0.0")]
         <<Sym("["), Word("Info"), Sym("("), Str("Vault"), Sym(","), Ws, Str("Bob"),
           Sym(","), Ws, Str("1.0.0"), Sym(")"), Sym("]")>>
    [] kind = "infoEmpty" ->  \* [Info ("", "Ann")]
         <<Sym("["), Word("Info"), Ws, Sym("("), Str(""), Sym(","), Str("Ann"), Sym(")"),
           Sym("]")>>
    [] kind = "rust" ->       \* class Foo : RustPlugin
         <<Word("class"), Ws, Word("Foo"), Ws, Sym(":"), Ws, Word("RustPlugin")>>
    [] kind = "cov" ->        \* class Bar:CovalencePlugin
         <<Word("class"), Ws, Word("Bar"), Sym(":"), Word("CovalencePlugin")>>
    [] kind = "qualified" ->  \* class Qux : Oxide.Plugins.RustPlugin
         <<Word("class"), Ws, Word("Qux"), Ws, Sym(":"), Ws, Word("Oxide"), Sym("."),
           Word("Plugins"), Sym("."), Word("RustPlugin")>>
    [] kind = "prefixed" ->   \* class Helper : RustPluginBase
         <<Word("class"), Ws, Word("Helper"), Ws, Sym(":"), Ws, Word("RustPluginBase")>>
    [] kind = "plain" ->      \* class Cfg { }
         <<Word("class"), Ws, Word("Cfg"), Ws, Sym("{"), Ws, Sym("}")>>
    [] kind = "using" ->      \* using Oxide;
         <<Word("using"), Ws, Word("Oxide"), Sym(";")>>

Kinds == {"info2", "info3", "infoEmpty", "rust", "cov", "qualified", "prefixed", "plain",
          "using"}

\* The files the content API can return: up to MaxDecls declarations.
Files == UNION {[1..n -> Kinds] : n \in 0..MaxDecls}

\* Buffer.from(content, "base64").toString("utf8"): the declarations, one per line.
RECURSIVE decoded(_)
decoded(ds) ==
  IF ds = <<>> THEN <<>> ELSE Declaration(Head(ds)) \o <<Ws>> \o decoded(Tail(ds))

\* \s* from position i: the position of the first token that is not white space.
RECURSIVE SkipWs(_, _)
SkipWs(text, i) ==
  IF i <= Len(text) /\ text[i].t = "ws" THEN SkipWs(text, i + 1) ELSE i

Is(text, i, tok) == i <= Len(text) /\ text[i] = tok
IsA(text, i, t) == i <= Len(text) /\ text[i].t = t

\* "([^"]+)": a string literal that is not empty.
IsFilledStr(text, i) == IsA(text, i, "str") /\ text[i].v # ""

\* /\[Info\s*\(\s*"([^"]+)"\s*,\s*"([^"]+)"\s*\)/ tried at position i.
InfoAt(text, i) ==
  LET lp == SkipWs(text, i + 2)
      name == SkipWs(text, lp + 1)
      comma == SkipWs(text, name + 1)
      author == SkipWs(text, comma + 1)
      rp == SkipWs(text, author + 1)
  IN  IF /\ Is(text, i, Sym("["))
         /\ Is(text, i + 1, Word("Info"))
         /\ Is(text, lp, Sym("("))
         /\ IsFilledStr(text, name)
         /\ Is(text, comma, Sym(","))
         /\ IsFilledStr(text, author)
         /\ Is(text, rp, Sym(")"))
      THEN <<[name |-> text[name].v, author |-> text[author].v]>>
      ELSE <<>>

\* Words that begin with RustPlugin or CovalencePlugin: the pattern ends with
\* the base name and asks for nothing after it.
BaseNames == {"RustPlugin", "CovalencePlugin", "RustPluginBase"}

\* /class\s+(\w+)\s*:\s*(RustPlugin|CovalencePlugin)/ tried at position i.
ClassAt(text, i) ==
  LET id == SkipWs(text, i + 1)
      colon == SkipWs(text, id + 1)
      base == SkipWs(text, colon + 1)
  IN  IF /\ Is(text, i, Word("class"))
         /\ IsA(text, i + 1, "ws")
         /\ IsA(text, id, "word")
         /\ Is(text, colon, Sym(":"))
         /\ IsA(text, base, "word")
         /\ text[base].v \in BaseNames
      THEN <<[name |-> text[id].v, author |-> ""]>>
      ELSE <<>>

\* decoded.match(...): the leftmost match, <<>> for null.
RECURSIVE infoMatch(_, _)
infoMatch(text, i) ==
  IF i > Len(text) THEN <<>>
  ELSE IF InfoAt(text, i) # <<>> THEN InfoAt(text, i)
  ELSE infoMatch(text, i + 1)

RECURSIVE classMatch(_, _)
classMatch(text, i) ==
  IF i > Len(text) THEN <<>>
  ELSE IF ClassAt(text, i) # <<>> THEN ClassAt(text, i)
  ELSE classMatch(text, i + 1)

\* Lines 279-295: the Info attribute first, the class declaration second.
parsePluginInfoClassFirst(text) ==
  IF classMatch(text, 1) # <<>> THEN classMatch(text, 1) ELSE infoMatch(text, 1)
parsePluginInfo(text) ==
  IF infoMatch(text, 1) # <<>> THEN infoMatch(text, 1) ELSE classMatch(text, 1)

\* The item being named: Vault.cs in a repository of octo.
ItemPath == [dir |-> "plugins", stem |-> "Vault", ext |-> "cs"]
OwnerLogin == "octo"

\* Line 313: path.basename(item.path).replace(/\.[^.]+$/, "")
DefaultName(path) == path.stem

\* The file names and owner logins upstream: PathOf and RepoOf are numbers.
FileStem(p) == IF p = 1 THEN "Vault" ELSE "Kits"
LoginOf(r) == IF r = 1 THEN "octo" ELSE "hubot"

\* What fetchFileContent gives for an item of the crawl: <<>> when it throws,
\* else the file.  The crawl is followed with every outcome only where the
\* names are looked at; elsewhere the file is one that names no plugin.
CrawledFiles == {<<"info2">>, <<"plain">>}
Contents == IF watch = "name" THEN {<<>>} \cup {<<f>> : f \in CrawledFiles} ELSE {<<<<"plain">>>>}

\* Lines 312-326: the defaults, replaced by what the content says if it was
\* fetched and parses.
NamedByContentOnly(item, got) ==
  LET parsed == IF got = <<>> THEN <<>> ELSE parsePluginInfo(decoded(got[1]))
  IN  [name |-> IF parsed # <<>> THEN parsed[1].name ELSE "",
       author |-> IF parsed # <<>> THEN parsed[1].author ELSE ""]
Named(item, got) ==
  LET parsed == IF got = <<>> THEN <<>> ELSE parsePluginInfo(decoded(got[1]))
  IN  [name |-> IF parsed # <<>> THEN parsed[1].name ELSE FileStem(item.path),
       author |-> IF parsed # <<>> /\ parsed[1].author # ""
                  THEN parsed[1].author ELSE LoginOf(item.full_name)]

\* How the naming of the item went.
Naming(got) ==
  IF got = <<>> THEN "unread"
  ELSE IF parsePluginInfo(decoded(got[1])) = <<>> THEN "unparsed" ELSE "named"

(***************************************************************************)
(* runOnce                                                                 *)
(***************************************************************************)
(***************************************************************************)
(* Time.  Only the order of timestamps is compared (by the sort), so time  *)
(* is kept as a rank: the clock advances when an entry is stamped, and a   *)
(* stamp that no file kept is forgotten when the process is gone.          *)
(***************************************************************************)
RECURSIVE Latest(_)
Latest(its) ==
  IF its = <<>> THEN 0
  ELSE LET rest == Latest(Tail(its))
       IN  IF Head(its).indexed_at > rest THEN Head(its).indexed_at ELSE rest

ClockAfter(f) == IF f = <<>> THEN 1 ELSE Latest(f[1].items) + 1

\* An observation is recorded only by the specification that watches it.
Observe(w, new, old) == IF watch = w THEN new ELSE old

(***************************************************************************)
(* atomicWrite                                                             *)
(*                                                                         *)
(* The two persisted files and their temporary files on a disk.  A file is *)
(* absent or holds the leading chunks of a document; writeFileSync creates *)
(* or truncates its file and then writes the chunks one by one, renameSync *)
(* replaces the target in one step.  The process can crash between any two *)
(* steps; the disk stays.                                                  *)
(***************************************************************************)
STATE_FILE == "state.json"
OUT_FILE == "oxide_plugins.json"

\* Line 172: const tmp = `${filePath}.tmp`
TmpIsTarget(path) == path
TmpOf(path) == path \o ".tmp"

Paths == {STATE_FILE, OUT_FILE, TmpOf(STATE_FILE), TmpOf(OUT_FILE)}

Whole(doc) == <<[doc |-> doc, chunks |-> ContentChunks]>>

\* fs.renameSync(from, to): to is replaced by from in one step.
renameSync(d, from, to) ==
  IF from = to THEN d ELSE [d EXCEPT ![to] = d[from], ![from] = <<>>]

DiskEmpty == [path \in Paths |-> <<>>]

WriteOff ==
  /\ disk = DiskEmpty
  /\ wpc = "idle"
  /\ filePath = STATE_FILE
  /\ content = 0
  /\ previous = <<>>

\* No item is being named.
ParseOff ==
  /\ decls = <<>>
  /\ ppc = "named"
  /\ pluginName = ""
  /\ pluginAuthor = ""

\* No token has been asked for.
TokenOff ==
  /\ tpc = "off"
  /\ clock = 0
  /\ GITHUB_TOKEN = <<>>
  /\ cachedToken = <<>>
  /\ lastSent = <<>>

\* No repository crawler has run in the output directory.
CrawlerOff ==
  /\ crawlerStateFile = <<>>
  /\ cpc = "off"
  /\ crawlerState = [processed_repositories |-> <<>>, latest_session_statistics |-> <<>>]
  /\ uniqueRepositories = {}
  /\ newRepositories = <<>>
  /\ repoIndex = 1
  /\ results = <<>>
  /\ sessionStarted = 0
  /\ clones = [r \in 1..NumRepos |-> 0]
  /\ processedAtCall = {}
  /\ intact = TRUE

\* No process has been started yet.
RunOff ==
  /\ TokenOff
  /\ CrawlerOff
  /\ rpc = "off"
  /\ CONTINUOUS = FALSE
  /\ exitCode = <<>>
  /\ cycle = 0
  /\ naps = 0

InitCrawl ==
  /\ stateFile = <<>>
  /\ outFile = <<>>
  /\ pc = "idle"
  /\ state = FreshState
  /\ existingMap = <<>>
  /\ variantIndex = 0
  /\ items = <<>>
  /\ itemIdx = 1
  /\ processedCount = 0
  /\ newEntries = 0
  /\ lastFlushedNewEntries = 0
  /\ resumeAt = <<>>
  /\ loadedSeen = {}
  /\ failed = FALSE
  /\ mapped = {}
  /\ found = {}
  /\ errAt = <<>>
  /\ closed = {}
  /\ allKnown = TRUE
  /\ startedFrom = ""
  /\ lastReq = <<>>
  /\ ordered = TRUE
  /\ outcome = "none"
  /\ expect = <<>>
  /\ flushes = 0
  /\ repoFetches = <<>>

\* No call of githubFetchJson is observed.
FetchOff ==
  /\ fpc = "off"
  /\ attempt = 1
  /\ result = [kind |-> "none", status |-> 0, body |-> ""]
  /\ requests = 0
  /\ sleeps = 0
  /\ secondary = 0
  /\ notBefore = 0
  /\ prior429 = TRUE
  /\ lastRes = <<>>

Init ==
  /\ InitCrawl
  /\ now = 1
  /\ FetchOff
  /\ WriteOff
  /\ RunOff
  /\ ParseOff
  /\ watch = "crawl"

Position == [variant |-> variantIndex, page |-> state.currentPage]

\* (variant, page) pairs in lexicographic order.
Before(a, b) == a.variant < b.variant \/ (a.variant = b.variant /\ a.page < b.page)

\* A fetchSearchPage request is issued: the resume point has been acted on.
NoteRequest ==
  /\ resumeAt' = <<>>
  /\ lastReq' = Observe("order", <<Position>>, lastReq)
  /\ ordered' = Observe("order", ordered /\ (lastReq = <<>> \/ Before(lastReq[1], Position)),
                        ordered)
  /\ expect' = <<>>

\* How this turn of the page loop went.
NoteOutcome(how) == outcome' = Observe("order", how, outcome)

\* A search request throws.
NoteFailure == failed' = Observe("resume", TRUE, failed)

\* fetchSearchPage throws: the first pair it failed for in this run.
NotePageFailure ==
  errAt' = Observe("errors", IF errAt = <<>> THEN <<Position>> ELSE errAt, errAt)

\* Line 437: for (let variantIndex = state.currentVariant; ...
FirstVariantZero(st) == 0
FirstVariant(st) == st.currentVariant

\* Lines 407-435: load or initialise the state, load the index, zero the counters.
StartRun ==
  /\ pc \in {"idle", "done"}
  /\ LET fresh == NeedsFresh(loadState)
         st == IF fresh THEN FreshState ELSE loadState[1]
     IN  /\ state' = st
         /\ stateFile' = IF fresh THEN saveState(st) ELSE stateFile
         /\ variantIndex' = FirstVariant(st)
         /\ resumeAt' = Observe("resume",
                          IF fresh THEN <<>>
                          ELSE <<[variant |-> st.currentVariant, page |-> st.currentPage]>>,
                          resumeAt)
         /\ loadedSeen' = Observe("resume", st.seenKeys, loadedSeen)
  /\ existingMap' = loadExistingOutput
  /\ processedCount' = 0
  /\ newEntries' = 0
  /\ lastFlushedNewEntries' = 0
  /\ items' = <<>>
  /\ itemIdx' = 1
  /\ failed' = FALSE
  /\ mapped' = {}
  /\ found' = {}
  /\ errAt' = <<>>
  /\ closed' = {}
  /\ allKnown' = TRUE
  /\ startedFrom' = Observe("start", FoundInStateFile, "")
  /\ lastReq' = <<>>
  /\ ordered' = TRUE
  /\ outcome' = "none"
  /\ expect' = <<>>
  /\ flushes' = 0
  /\ pc' = "variant"
  /\ UNCHANGED <<outFile, now, repoFetches, others>>

\* Line 437: variantIndex < variants.length
OneVariantMore(i) == i <= NumVariants
MoreVariants(i) == i < NumVariants

\* Line 445: if (variantIndex !== state.currentVariant)
NeverNewVariant(i, st) == FALSE
IsNewVariant(i, st) == i # st.currentVariant

\* Lines 437-449: head of the variant loop.
EnterVariant ==
  /\ pc = "variant"
  /\ MoreVariants(variantIndex)
  /\ IF IsNewVariant(variantIndex, state)
     THEN /\ state' = [state EXCEPT !.currentVariant = variantIndex, !.currentPage = 1]
          /\ stateFile' = saveState(state')
     ELSE UNCHANGED <<state, stateFile>>
  /\ pc' = "page"
  /\ UNCHANGED <<outFile, existingMap, variantIndex, page, counters, now, observations, others>>

\* Line 437: the loop condition fails, the variant loop is over.
LeaveVariants ==
  /\ pc = "variant"
  /\ ~MoreVariants(variantIndex)
  /\ pc' = "final"
  /\ UNCHANGED <<files, state, existingMap, variantIndex, page, counters, now, observations, others>>

\* `break` out of the page loop: the for statement's variantIndex++ follows.
Break ==
  /\ variantIndex' = variantIndex + 1
  /\ pc' = "variant"

\* Line 454: while (state.currentPage <= 10) is false.
PageLoopExit ==
  /\ pc = "page"
  /\ state.currentPage > PageCap
  /\ Break
  /\ UNCHANGED <<files, state, existingMap, page, counters, now, observations, others>>

\* Lines 459-465: fetchSearchCount returns 0.
CountZero ==
  /\ pc = "page"
  /\ state.currentPage <= PageCap
  /\ NoteOutcome("count0")
  /\ Break
  /\ UNCHANGED <<files, state, existingMap, page, counters, now, resumeObs, crawlObs,
                 errAt, startedFrom, lastReq, ordered, expect, flushes, repoFetches,
                 others>>

\* Lines 459, 522-526: fetchSearchCount throws.
CountFails ==
  /\ pc = "page"
  /\ state.currentPage <= PageCap
  /\ NoteFailure
  /\ NoteOutcome("countErr")
  /\ Break
  /\ UNCHANGED <<files, state, existingMap, page, counters, now, resumeAt, loadedSeen,
                 mapped, crawlObs, errAt, startedFrom, lastReq, ordered, expect, flushes,
                 repoFetches,
                 others>>

\* Lines 468, 522-526: the count is positive and fetchSearchPage throws.
PageFails ==
  /\ pc = "page"
  /\ state.currentPage <= PageCap
  /\ NoteRequest
  /\ NoteFailure
  /\ NotePageFailure
  /\ NoteOutcome("pageErr")
  /\ Break
  /\ UNCHANGED <<files, state, existingMap, page, counters, now, loadedSeen, mapped,
                 crawlObs, startedFrom, flushes, repoFetches, others>>

\* Lines 468-474: the count is positive and the page holds no item.
PageEmpty ==
  /\ pc = "page"
  /\ state.currentPage <= PageCap
  /\ NoteRequest
  /\ NoteOutcome("empty")
  /\ Break
  /\ UNCHANGED <<files, state, existingMap, page, counters, now, loadedSeen, failed,
                 mapped, crawlObs, errAt, startedFrom, flushes, repoFetches, others>>

\* Lines 468-477: the page holds 1..PerPage items; the item loop starts.
PageItems ==
  /\ pc = "page"
  /\ state.currentPage <= PageCap
  /\ \E its \in Pages(1, PerPage) :
       /\ items' = its
       /\ allKnown' = Observe("crawl",
                        allKnown /\ \A i \in DOMAIN its : itemKey(its[i]) \in IndexKeys(outFile),
                        allKnown)
  /\ itemIdx' = 1
  /\ NoteRequest
  /\ NoteOutcome("items")
  /\ pc' = "items"
  /\ UNCHANGED <<files, state, existingMap, variantIndex, counters, now, loadedSeen,
                 failed, mapped, found, closed, errAt, startedFrom, flushes, repoFetches,
                 others>>

\* Line 479: if (state.seenKeys[key]) continue
AlreadySeen(seen, key) == key \in seen

\* Lines 478-481: the item's key is in seenKeys.
SkipSeen ==
  /\ pc = "items"
  /\ itemIdx <= Len(items)
  /\ AlreadySeen(state.seenKeys, itemKey(items[itemIdx]))
  /\ itemIdx' = itemIdx + 1
  /\ UNCHANGED <<files, pc, state, existingMap, variantIndex, items, counters, now,
                 observations, others>>

\* The item is handed to mapItemToIndexedPlugin.
NoteMapped(item) ==
  mapped' = Observe("resume", mapped \cup ({itemKey(item)} \cap loadedSeen), mapped)

\* Line 307: if (!repoData), with repoData = repoCache[fullName]
NeverInCache(cache, fullName) == FALSE
InCache(cache, fullName) == fullName \in cache

\* The same error, were it not caught inside the item loop.
MapItemAborts ==
  /\ pc = "items"
  /\ itemIdx <= Len(items)
  /\ ~AlreadySeen(state.seenKeys, itemKey(items[itemIdx]))
  /\ ~InCache(state.repoCache, items[itemIdx].full_name)
  /\ NoteMapped(items[itemIdx])
  /\ Break
  /\ UNCHANGED <<files, state, existingMap, page, counters, now,
                 resumeAt, loadedSeen, failed, crawlObs, errAt, moreObs, others>>

\* Lines 484, 305-310, 503-505: fetchRepo throws inside mapItemToIndexedPlugin
\* (only a repository that is not cached is fetched); the item is skipped.
MapItemFails ==
  /\ pc = "items"
  /\ itemIdx <= Len(items)
  /\ ~AlreadySeen(state.seenKeys, itemKey(items[itemIdx]))
  /\ ~InCache(state.repoCache, items[itemIdx].full_name)
  /\ NoteMapped(items[itemIdx])
  /\ itemIdx' = itemIdx + 1
  /\ UNCHANGED <<files, pc, state, existingMap, variantIndex, items, counters, now,
                 resumeAt, loadedSeen, failed, crawlObs, errAt, moreObs, others>>

\* mapItemToIndexedPlugin's result (lines 329-354).
mapItemToIndexedPlugin(item, got, t) ==
  [plugin_name |-> Named(item, got).name, plugin_author |-> Named(item, got).author,
   full_name |-> item.full_name, path |-> item.path, sha |-> item.sha, indexed_at |-> t]

\* writeUnifiedOutput has written the index file.
NoteFlush == flushes' = Observe("flush", flushes + 1, flushes)

\* Line 487: if (!existingMap.has(indexedKeyStr))
AlwaysNewEntry(map, indexed) == TRUE
IsNewEntry(map, indexed) == ~MapHas(map, indexed)

\* Line 496: periodic save only if there are new entries since the last flush.
CheckpointNever(processed, fresh, flushed) == FALSE
CheckpointEveryTime(processed, fresh, flushed) == processed % CheckpointEvery = 0
CheckpointDue(processed, fresh, flushed) ==
  processed % CheckpointEvery = 0 /\ fresh > flushed

\* Lines 484-501, 507: one item is mapped, merged and marked seen; the index is
\* written when a checkpoint is due (the state is written by CheckpointState).
ProcessItem ==
  /\ pc = "items"
  /\ itemIdx <= Len(items)
  /\ ~AlreadySeen(state.seenKeys, itemKey(items[itemIdx]))
  /\ \E got \in Contents :
     LET item == items[itemIdx]
         indexed == mapItemToIndexedPlugin(item, got, now)
         isNew == IsNewEntry(existingMap, indexed)
     IN  /\ repoFetches' = Observe("repos",
                            IF InCache(state.repoCache, item.full_name) THEN repoFetches
                            ELSE Append(repoFetches, item.full_name), repoFetches)
         /\ decls' = Observe("name", IF got = <<>> THEN <<>> ELSE got[1], decls)
         /\ ppc' = Observe("name", Naming(got), ppc)
         /\ existingMap' = IF isNew THEN MapSet(existingMap, indexed) ELSE existingMap
         /\ newEntries' = IF isNew THEN newEntries + 1 ELSE newEntries
         /\ now' = IF isNew THEN now + 1 ELSE now
         /\ state' = [state EXCEPT !.seenKeys = @ \cup {itemKey(item)},
                                   !.repoCache = @ \cup {item.full_name}]
         /\ NoteMapped(item)
         /\ found' = Observe("crawl", found \cup {indexedKey(indexed)}, found)
  /\ processedCount' = processedCount + 1
  /\ itemIdx' = itemIdx + 1
  /\ IF CheckpointDue(processedCount', newEntries', lastFlushedNewEntries)
     THEN /\ outFile' = writeUnifiedOutput(existingMap', SEARCH_QUERY, now')
          /\ NoteFlush
          /\ pc' = "checkpoint"
     ELSE UNCHANGED <<outFile, pc, flushes>>
  /\ UNCHANGED <<stateFile, variantIndex, items, lastFlushedNewEntries, resumeAt,
                 loadedSeen, failed, closed, allKnown, errAt, startedFrom, orderObs,
                 watch, writeVars, runVars, pluginName, pluginAuthor, apart, fetchVars>>

\* Lines 498-499: the second half of the periodic save.
CheckpointState ==
  /\ pc = "checkpoint"
  /\ stateFile' = saveState(state)
  /\ lastFlushedNewEntries' = newEntries
  /\ pc' = "items"
  /\ UNCHANGED <<outFile, state, existingMap, variantIndex, page, processedCount,
                 newEntries, now, observations, others>>

\* Line 515: fewer than a full page means the variant has no more pages.
NeverLastPage(n) == FALSE
FullPageIsLast(n) == n <= PerPage
IsLastPage(n) == n < PerPage

\* Line 511: state.currentPage++
SamePage(p) == p
NextPage(p) == p + 1

\* Lines 510-520: the page is done.
PageTurn ==
  /\ pc = "items"
  /\ itemIdx > Len(items)
  /\ state' = [state EXCEPT !.currentPage = NextPage(@)]
  /\ stateFile' = saveState(state')
  /\ closed' = Observe("crawl",
                 IF Len(items) < PerPage THEN closed \cup {variantIndex} ELSE closed, closed)
  /\ expect' = Observe("order",
                 IF Len(items) = PerPage /\ state.currentPage < PageCap
                 THEN <<[variant |-> variantIndex, page |-> state.currentPage + 1]>>
                 ELSE <<>>, expect)
  /\ IF IsLastPage(Len(items))
     THEN Break
     ELSE /\ pc' = "page"
          /\ UNCHANGED variantIndex
  /\ UNCHANGED <<outFile, existingMap, page, counters, now, resumeObs, found, allKnown,
                 errAt, startedFrom, lastReq, ordered, outcome, flushes, repoFetches,
                 others>>

\* Line 531: final save only if there are new entries since the last flush.
FinalSaveNever(fresh, flushed) == FALSE
FinalSaveDue(fresh, flushed) == fresh > flushed

\* Lines 530-533.
FinalSave ==
  /\ pc = "final"
  /\ IF FinalSaveDue(newEntries, lastFlushedNewEntries)
     THEN /\ outFile' = writeUnifiedOutput(existingMap, SEARCH_QUERY, now)
          /\ NoteFlush
     ELSE UNCHANGED <<outFile, flushes>>
  /\ pc' = "finalState"
  /\ UNCHANGED <<stateFile, state, existingMap, variantIndex, page, counters, now,
                 resumeObs, crawlObs, errAt, startedFrom, orderObs, repoFetches, others>>

\* Lines 534-538: the cycle is recorded as complete.
FinalState ==
  /\ pc = "finalState"
  /\ state' = [state EXCEPT !.lastFullScanAt = "iso", !.currentVariant = 0,
                            !.currentPage = 1, !.seenKeys = {}]
  /\ stateFile' = saveState(state')
  /\ pc' = "done"
  /\ UNCHANGED <<outFile, existingMap, variantIndex, page, counters, now, observations, others>>

\* The process is killed (or exits): everything in memory is gone, the files stay.
Kill ==
  /\ pc # "idle"
  /\ pc' = "idle"
  /\ state' = FreshState
  /\ existingMap' = <<>>
  /\ variantIndex' = 0
  /\ items' = <<>>
  /\ itemIdx' = 1
  /\ processedCount' = 0
  /\ newEntries' = 0
  /\ lastFlushedNewEntries' = 0
  /\ now' = ClockAfter(outFile)
  /\ resumeAt' = <<>>
  /\ loadedSeen' = {}
  /\ failed' = FALSE
  /\ mapped' = {}
  /\ found' = {}
  /\ errAt' = <<>>
  /\ closed' = {}
  /\ allKnown' = TRUE
  /\ startedFrom' = ""
  /\ lastReq' = <<>>
  /\ ordered' = TRUE
  /\ outcome' = "none"
  /\ expect' = <<>>
  /\ flushes' = 0
  /\ repoFetches' = <<>>
  /\ UNCHANGED <<files, others>>

\* state.json is lost between two runs.
LoseStateFile ==
  /\ pc = "idle"
  /\ stateFile # <<>>
  /\ stateFile' = <<>>
  /\ UNCHANGED <<outFile, pc, state, existingMap, variantIndex, page, counters, now,
                 observations, others>>

\* state.json is cut short between two runs (a copy that was interrupted).
TruncateStateFile ==
  /\ pc \in {"idle", "done"}
  /\ stateFile # <<>>
  /\ stateFile[1] # Unparseable
  /\ stateFile' = <<Unparseable>>
  /\ UNCHANGED <<outFile, pc, state, existingMap, variantIndex, page, counters, now,
                 observations, others>>

\* States an indexer of another schema version can have left behind; a file
\* without the field reads as version undefined.
ForeignStates ==
  {[version |-> v, currentVariant |-> NumVariants - 1, currentPage |-> 2,
    seenKeys |-> seen, repoCache |-> {}, lastFullScanAt |-> "iso", query |-> SEARCH_QUERY] :
      v \in {"0.9", "undefined"}, seen \in {{}, {itemKey(SearchItem(1))}}}

\* state.json is replaced between two runs by that of another schema version.
ForeignStateFile ==
  /\ pc \in {"idle", "done"}
  /\ \E st \in ForeignStates : stateFile' = <<st>>
  /\ UNCHANGED <<outFile, pc, state, existingMap, variantIndex, page, counters, now,
                 observations, others>>

Next ==
  \/ StartRun
  \/ EnterVariant
  \/ LeaveVariants
  \/ PageLoopExit
  \/ CountZero
  \/ CountFails
  \/ PageFails
  \/ PageEmpty
  \/ PageItems
  \/ SkipSeen
  \/ MapItemFails
  \/ ProcessItem
  \/ CheckpointState
  \/ PageTurn
  \/ FinalSave
  \/ FinalState
  \/ Kill
  \/ LoseStateFile

\* The crawl, observing what each cycle finds.
Spec == Init /\ [][Next]_vars

\* The crawl, one run after another, with a state.json that can be lost,
\* cut short or replaced between the runs.
InitStart ==
  /\ InitCrawl
  /\ now = 1
  /\ FetchOff
  /\ WriteOff
  /\ RunOff
  /\ ParseOff
  /\ watch = "start"

NextStart ==
  \/ StartRun
  \/ EnterVariant
  \/ LeaveVariants
  \/ PageLoopExit
  \/ CountZero
  \/ CountFails
  \/ PageFails
  \/ PageEmpty
  \/ PageItems
  \/ SkipSeen
  \/ MapItemFails
  \/ ProcessItem
  \/ CheckpointState
  \/ PageTurn
  \/ FinalSave
  \/ FinalState
  \/ LoseStateFile
  \/ TruncateStateFile
  \/ ForeignStateFile

SpecStart == InitStart /\ [][NextStart]_vars

\* The crawl, observing where each run resumes.
InitResume ==
  /\ InitCrawl
  /\ now = 1
  /\ FetchOff
  /\ WriteOff
  /\ RunOff
  /\ ParseOff
  /\ watch = "resume"

SpecResume == InitResume /\ [][Next]_vars

\* The crawl, observing the page fetches that fail.
InitErrors ==
  /\ InitCrawl
  /\ now = 1
  /\ FetchOff
  /\ WriteOff
  /\ RunOff
  /\ ParseOff
  /\ watch = "errors"

SpecErrors == InitErrors /\ [][Next]_vars

\* The crawl, observing the order of the page requests of each run.
InitOrder ==
  /\ InitCrawl
  /\ now = 1
  /\ FetchOff
  /\ WriteOff
  /\ RunOff
  /\ ParseOff
  /\ watch = "order"

SpecOrder == InitOrder /\ [][Next]_vars

\* The crawl, observing the writes of the index file.
InitFlush ==
  /\ InitCrawl
  /\ now = 1
  /\ FetchOff
  /\ WriteOff
  /\ RunOff
  /\ ParseOff
  /\ watch = "flush"

SpecFlush == InitFlush /\ [][Next]_vars

\* The crawl, one complete run after another, with every outcome of fetching
\* and parsing an item's file.
InitName ==
  /\ InitCrawl
  /\ now = 1
  /\ FetchOff
  /\ WriteOff
  /\ RunOff
  /\ ParseOff
  /\ watch = "name"

NextCycles ==
  \/ StartRun
  \/ EnterVariant
  \/ LeaveVariants
  \/ PageLoopExit
  \/ CountZero
  \/ CountFails
  \/ PageFails
  \/ PageEmpty
  \/ PageItems
  \/ SkipSeen
  \/ MapItemFails
  \/ ProcessItem
  \/ CheckpointState
  \/ PageTurn
  \/ FinalSave
  \/ FinalState

SpecName == InitName /\ [][NextCycles]_vars

\* The crawl, one complete run after another in one process, observing the
\* repository requests.
InitRepos ==
  /\ InitCrawl
  /\ now = 1
  /\ FetchOff
  /\ WriteOff
  /\ RunOff
  /\ ParseOff
  /\ watch = "repos"

SpecRepos == InitRepos /\ [][NextCycles]_vars

(***************************************************************************)
(* run                                                                     *)
(*                                                                         *)
(* One process after another: authentication, then runOnce once or, with   *)
(* CONTINUOUS, again and again with a sleep in between.  The file-system   *)
(* calls runOnce makes outside its try blocks can throw.                   *)
(***************************************************************************)
\* Lines 563-566: if (!CONTINUOUS) { await runOnce(); return; }
RepeatsAlways(c) == TRUE
Repeats(c) == c

\* Lines 571-575: the try/catch around runOnce exists in the continuous loop only.
CatchesNothing(c) == FALSE
CatchesCycleError(c) == c

\* runOnce is over: its locals are gone.
ForgetLocals ==
  /\ pc' = "idle"
  /\ state' = FreshState
  /\ existingMap' = <<>>
  /\ variantIndex' = 0
  /\ items' = <<>>
  /\ itemIdx' = 1
  /\ processedCount' = 0
  /\ newEntries' = 0
  /\ lastFlushedNewEntries' = 0
  /\ now' = ClockAfter(outFile)

\* The indexer is started, with or without CONTINUOUS=true.
Launch ==
  /\ rpc = "off"
  /\ pc = "idle"
  /\ rpc' = "auth"
  /\ CONTINUOUS' \in BOOLEAN
  /\ exitCode' = <<>>
  /\ cycle' = 0
  /\ naps' = 0
  /\ UNCHANGED <<crawlVars, now, watch, writeVars, fetchVars, parseVars, apart>>

\* Lines 547-554: getAuthToken throws, process.exit(1).
AuthFails ==
  /\ rpc = "auth"
  /\ rpc' = "off"
  /\ exitCode' = <<1>>
  /\ UNCHANGED <<crawlVars, now, watch, writeVars, fetchVars, parseVars, apart, CONTINUOUS, cycle, naps>>

\* Lines 547-561: the token is there.
AuthOk ==
  /\ rpc = "auth"
  /\ rpc' = "call"
  /\ UNCHANGED <<crawlVars, now, watch, writeVars, fetchVars, parseVars, apart, CONTINUOUS, exitCode, cycle, naps>>

\* Lines 564, 569-573: run() calls runOnce.
CallRunOnce ==
  /\ rpc = "call"
  /\ cycle < MaxCycles
  /\ rpc' = "running"
  /\ cycle' = cycle + 1
  /\ UNCHANGED <<crawlVars, now, watch, writeVars, fetchVars, parseVars, apart, CONTINUOUS, exitCode, naps>>

\* Lines 406-435: the body of runOnce begins.
BeginRunOnce ==
  /\ rpc = "running"
  /\ pc = "idle"
  /\ StartRun

\* Line 407: ensureDir throws (the output directory cannot be made).
EnsureDirFails ==
  /\ rpc = "running"
  /\ pc = "idle"
  /\ pc' = "threw"
  /\ UNCHANGED <<files, state, existingMap, variantIndex, page, counters, now,
                 observations, others>>

\* Line 538: the last saveState throws (the disk is full).
FinalStateFails ==
  /\ pc = "finalState"
  /\ pc' = "threw"
  /\ UNCHANGED <<files, state, existingMap, variantIndex, page, counters, now,
                 observations, others>>

\* Lines 564-565, 573, 577: runOnce has returned.
RunOnceReturns ==
  /\ rpc = "running"
  /\ pc = "done"
  /\ IF Repeats(CONTINUOUS)
     THEN /\ rpc' = "sleep"
          /\ UNCHANGED exitCode
     ELSE /\ rpc' = "off"
          /\ exitCode' = <<0>>
  /\ ForgetLocals
  /\ UNCHANGED <<files, observations, watch, writeVars, fetchVars, parseVars, apart, CONTINUOUS, cycle, naps>>

\* Lines 574-576, 582-585: runOnce has thrown; the loop logs it, run().catch
\* ends the process with process.exit(1).
RunOnceThrows ==
  /\ rpc = "running"
  /\ pc = "threw"
  /\ IF CatchesCycleError(CONTINUOUS)
     THEN /\ rpc' = "sleep"
          /\ UNCHANGED exitCode
     ELSE /\ rpc' = "off"
          /\ exitCode' = <<1>>
  /\ ForgetLocals
  /\ UNCHANGED <<files, observations, watch, writeVars, fetchVars, parseVars, apart, CONTINUOUS, cycle, naps>>

\* Lines 577-579: await sleep(CYCLE_DELAY_MS), then the loop goes round.
CycleSleep ==
  /\ rpc = "sleep"
  /\ rpc' = "call"
  /\ naps' = naps + 1
  /\ UNCHANGED <<crawlVars, now, watch, writeVars, fetchVars, parseVars, apart, CONTINUOUS, exitCode, cycle>>

InitRun ==
  /\ InitCrawl
  /\ now = 1
  /\ FetchOff
  /\ WriteOff
  /\ RunOff
  /\ ParseOff
  /\ watch = "errors"

NextRun ==
  \/ Launch
  \/ AuthFails
  \/ AuthOk
  \/ CallRunOnce
  \/ EnsureDirFails
  \/ BeginRunOnce
  \/ EnterVariant
  \/ LeaveVariants
  \/ PageLoopExit
  \/ CountZero
  \/ CountFails
  \/ PageFails
  \/ PageEmpty
  \/ PageItems
  \/ SkipSeen
  \/ MapItemFails
  \/ ProcessItem
  \/ CheckpointState
  \/ PageTurn
  \/ FinalSave
  \/ FinalState
  \/ FinalStateFails
  \/ RunOnceReturns
  \/ RunOnceThrows
  \/ CycleSleep

\* The processes run() makes, each from its start to its exit.
SpecRun == InitRun /\ [][NextRun]_vars

(***************************************************************************)
(* githubFetchJson                                                         *)
(*                                                                         *)
(* A header is absent (headers.get gives null), a decimal number, or some  *)
(* other text (an HTTP date in Retry-After).  parseInt of other text is    *)
(* NaN; every comparison with NaN is false, arithmetic on it gives NaN, and *)
(* setTimeout runs a NaN or sub-millisecond delay as 1 ms.                 *)
(***************************************************************************)
Absent == [kind |-> "absent", n |-> 0]
Junk == [kind |-> "text", n |-> 0]
Num(n) == [kind |-> "num", n |-> n]

NaN == [nan |-> TRUE, n |-> 0]
Number(n) == [nan |-> FALSE, n |-> n]

parseInt(h) == IF h.kind = "num" THEN Number(h.n) ELSE NaN
Times(x, k) == IF x.nan THEN NaN ELSE Number(x.n * k)
MathMax(k, x) == IF x.nan THEN NaN ELSE Number(IF x.n > k THEN x.n ELSE k)
MathMin(k, x) == IF x.nan THEN NaN ELSE Number(IF x.n < k THEN x.n ELSE k)

\* sleep(ms): the time the timer takes.
sleep(ms) == IF ms.nan \/ ms.n < 1 THEN 1 ELSE ms.n

Bodies == {"body-a", "body-b"}

NoHeaders == [remaining |-> Absent, resetSearch |-> Absent, resetPrimary |-> Absent,
              retryAfter |-> Absent]

\* The responses the server may give to a request.
PlainResponses ==
  {[status |-> st, body |-> b, headers |-> NoHeaders] : st \in {200, 404, 500}, b \in Bodies}

Responses429 ==
  {[status |-> 429, body |-> b, headers |-> [NoHeaders EXCEPT !.retryAfter = ra]] :
      b \in Bodies, ra \in {Absent, Junk, Num(0), Num(2)}}

Responses403 ==
  {[status |-> 403, body |-> b,
    headers |-> [remaining |-> rem, resetSearch |-> rs, resetPrimary |-> rp,
                 retryAfter |-> ra]] :
      b \in Bodies, rem \in {Num(0), Num(7)}, rs \in {Absent, Num(9)},
      rp \in {Absent, Num(1), Num(5)}, ra \in {Absent, Junk, Num(2)}}

\* res.ok
Ok(res) == res.status >= 200 /\ res.status <= 299

\* Line 204: parseInt((resetSearch ?? resetPrimary) || "0", 10)
resetSeconds(res) ==
  LET h == IF res.headers.resetSearch.kind # "absent" THEN res.headers.resetSearch
           ELSE res.headers.resetPrimary
  IN  IF h.kind = "absent" THEN Number(0) ELSE parseInt(h)

\* Line 205: if (remaining === "0" && resetSeconds > 0)
IsPrimaryLimit(res) ==
  /\ res.headers.remaining = Num(0)
  /\ ~resetSeconds(res).nan
  /\ resetSeconds(res).n > 0

\* Line 206: Math.max(0, (resetSeconds * 1000) - Date.now()) + 1500
PrimaryWaitSeconds(reset, t) ==
  Number((IF reset.n - t > 0 THEN reset.n - t ELSE 0) + SafetyMarginMs)
PrimaryWaitMs(reset, t) ==
  Number((IF reset.n * 1000 - t > 0 THEN reset.n * 1000 - t ELSE 0) + SafetyMarginMs)

\* Line 212: if (retryAfter)
HasRetryAfter(res) == res.headers.retryAfter.kind # "absent"

\* Line 213: Math.max(1000, parseInt(retryAfter, 10) * 1000)
RetryAfterMs(res) == MathMax(MinRetryAfterMs, Times(parseInt(res.headers.retryAfter), 1000))

\* Line 219: Math.min(120000, 5000 * attempt)
BackoffMs(a) == MathMin(BackoffCapMs, Number(BackoffStepMs * a))

\* Line 222: if (attempt >= 6) throw
GivesUp(a) == a >= MaxAttempts

\* Line 229: Number.parseInt(res.headers.get("Retry-After") ?? "10", 10) * 1000
TooManyWaitMs(res) ==
  Times(IF res.headers.retryAfter.kind = "absent" THEN Number(DefaultRetryAfter)
        ELSE parseInt(res.headers.retryAfter), 1000)

\* Lines 228-233: a 429 is retried whatever the attempt.
GivesUpOn429Capped(a) == a >= MaxAttempts
GivesUpOn429(a) == FALSE

\* The reset time (ms) a 403 announces when its remaining quota is 0: the
\* search-specific header when the server sends one, X-RateLimit-Reset otherwise.
AnnouncedReset(res) ==
  LET h == IF res.headers.resetSearch.kind # "absent" THEN res.headers.resetSearch
           ELSE res.headers.resetPrimary
  IN  IF res.status = 403 /\ res.headers.remaining = Num(0) /\ h.kind = "num" /\ h.n > 0
      THEN h.n * 1000 ELSE 0

\* A response has arrived.
NoteResponse(res) ==
  /\ lastRes' = <<[status |-> res.status, body |-> res.body]>>
  /\ prior429' = (prior429 /\ (lastRes = <<>> \/ lastRes[1].status = 429))
  /\ notBefore' = IF AnnouncedReset(res) > notBefore THEN AnnouncedReset(res) ELSE notBefore

\* await sleep(ms); return githubFetchJson(url, attempt + 1)
SleepAndRetry(ms) ==
  /\ requests < MaxResponses
  /\ now' = now + sleep(ms)
  /\ sleeps' = sleeps + 1
  /\ attempt' = attempt + 1
  /\ requests' = requests + 1
  /\ fpc' = "request"
  /\ UNCHANGED result

\* The call ends by throwing.
Throw(error) ==
  /\ fpc' = "thrown"
  /\ result' = error
  /\ UNCHANGED <<attempt, requests>>

\* Lines 223-224: new Error(`GitHub API 403 after retries. Body: ${body}`)
RetriesError(res) == [kind |-> "403 after retries", status |-> res.status, body |-> res.body]

\* Lines 236-237: new Error(`GitHub API ${res.status} ${res.statusText}: ${text}`)
HttpErrorWithoutBody(res) == [kind |-> "http error", status |-> res.status, body |-> ""]
HttpErrorOf(res) == [kind |-> "http error", status |-> res.status, body |-> res.body]

\* Lines 197-211: 403 with the quota used up and a reset time.
PrimaryLimit ==
  /\ fpc = "request"
  /\ \E res \in Responses403 :
       /\ res.status = 403
       /\ IsPrimaryLimit(res)
       /\ NoteResponse(res)
       /\ SleepAndRetry(PrimaryWaitMs(resetSeconds(res), now))
  /\ UNCHANGED <<crawlVars, aside, secondary>>

\* Lines 212-217: 403 with a Retry-After header.
RetryAfterLimit ==
  /\ fpc = "request"
  /\ \E res \in Responses403 :
       /\ res.status = 403
       /\ ~IsPrimaryLimit(res)
       /\ HasRetryAfter(res)
       /\ NoteResponse(res)
       /\ SleepAndRetry(RetryAfterMs(res))
  /\ UNCHANGED <<crawlVars, aside, secondary>>

\* Lines 218-226: any other 403 is a secondary limit: back off, then give up
\* or retry.
SecondaryLimit ==
  /\ fpc = "request"
  /\ \E res \in Responses403 :
       /\ res.status = 403
       /\ ~IsPrimaryLimit(res)
       /\ ~HasRetryAfter(res)
       /\ NoteResponse(res)
       /\ secondary' = secondary + 1
       /\ IF GivesUp(attempt)
          THEN /\ now' = now + sleep(BackoffMs(attempt))
               /\ sleeps' = sleeps + 1
               /\ Throw(RetriesError(res))
          ELSE SleepAndRetry(BackoffMs(attempt))
  /\ UNCHANGED <<crawlVars, aside>>

\* Lines 228-233: 429.
TooManyRequests ==
  /\ fpc = "request"
  /\ \E res \in Responses429 :
       /\ res.status = 429
       /\ NoteResponse(res)
       /\ IF GivesUpOn429(attempt)
          THEN /\ Throw(HttpErrorOf(res))
               /\ UNCHANGED <<now, sleeps>>
          ELSE SleepAndRetry(TooManyWaitMs(res))
  /\ UNCHANGED <<crawlVars, aside, secondary>>

\* Lines 235-238: any other status that is not 2xx.
HttpError ==
  /\ fpc = "request"
  /\ \E res \in PlainResponses :
       /\ res.status \notin {403, 429}
       /\ ~Ok(res)
       /\ NoteResponse(res)
       /\ Throw(HttpErrorOf(res))
  /\ UNCHANGED <<crawlVars, aside, now, sleeps, secondary>>

\* Lines 240-241: 2xx; the body is the JSON the API sends.
Success ==
  /\ fpc = "request"
  /\ \E res \in PlainResponses :
       /\ Ok(res)
       /\ NoteResponse(res)
       /\ fpc' = "returned"
       /\ result' = [kind |-> "data", status |-> res.status, body |-> res.body]
  /\ UNCHANGED <<crawlVars, aside, now, attempt, requests, sleeps, secondary>>

\* Line 186: githubFetchJson(url) is called, attempt = 1.
InitFetch ==
  /\ InitCrawl
  /\ WriteOff
  /\ RunOff
  /\ ParseOff
  /\ watch = "fetch"
  /\ now = StartMs
  /\ fpc = "request"
  /\ attempt = 1
  /\ result = [kind |-> "none", status |-> 0, body |-> ""]
  /\ requests = 1
  /\ sleeps = 0
  /\ secondary = 0
  /\ notBefore = 0
  /\ prior429 = TRUE
  /\ lastRes = <<>>

NextFetch ==
  \/ PrimaryLimit
  \/ RetryAfterLimit
  \/ SecondaryLimit
  \/ TooManyRequests
  \/ HttpError
  \/ Success

\* One call of githubFetchJson against a server that answers as it likes.
SpecFetch == InitFetch /\ [][NextFetch]_vars

\* atomicWrite, step by step.
\* Lines 368-370, 385-403: saveState or writeUnifiedOutput calls atomicWrite
\* with a document that was never written before.
CallAtomicWrite ==
  /\ wpc = "idle"
  /\ content < MaxWrites
  /\ \E path \in {STATE_FILE, OUT_FILE} :
       /\ filePath' = path
       /\ previous' = disk[path]
  /\ content' = content + 1
  /\ wpc' = "open"
  /\ UNCHANGED disk

\* Line 173, writeFileSync: open(tmp, "w") creates the file or truncates it.
OpenTmp ==
  /\ wpc = "open"
  /\ disk' = [disk EXCEPT ![TmpOf(filePath)] = <<[doc |-> content, chunks |-> 0]>>]
  /\ wpc' = "writing"
  /\ UNCHANGED <<filePath, content, previous>>

\* Line 173, writeFileSync: one more chunk reaches the file.
WriteChunk ==
  /\ wpc = "writing"
  /\ disk[TmpOf(filePath)][1].chunks < ContentChunks
  /\ disk' = [disk EXCEPT ![TmpOf(filePath)] = <<[@[1] EXCEPT !.chunks = @ + 1]>>]
  /\ UNCHANGED <<wpc, filePath, content, previous>>

\* Line 173, writeFileSync returns: every chunk is written.
CloseTmp ==
  /\ wpc = "writing"
  /\ disk[TmpOf(filePath)][1].chunks = ContentChunks
  /\ wpc' = "rename"
  /\ UNCHANGED <<disk, filePath, content, previous>>

\* Line 174: fs.renameSync(tmp, filePath); atomicWrite returns.
RenameTmp ==
  /\ wpc = "rename"
  /\ disk' = renameSync(disk, TmpOf(filePath), filePath)
  /\ wpc' = "idle"
  /\ UNCHANGED <<filePath, content, previous>>

\* The process crashes at any step of the call.
Crash ==
  /\ wpc \in {"open", "writing", "rename"}
  /\ wpc' = "down"
  /\ UNCHANGED <<disk, filePath, content, previous>>

\* The indexer is started again.
Restart ==
  /\ wpc = "down"
  /\ wpc' = "idle"
  /\ UNCHANGED <<disk, filePath, content, previous>>

InitWrite ==
  /\ InitCrawl
  /\ now = 1
  /\ FetchOff
  /\ watch = "write"
  /\ WriteOff
  /\ RunOff
  /\ ParseOff

NextWrite ==
  /\ \/ CallAtomicWrite
     \/ OpenTmp
     \/ WriteChunk
     \/ CloseTmp
     \/ RenameTmp
     \/ Crash
     \/ Restart
  /\ UNCHANGED <<crawlVars, now, watch, fetchVars, runVars, parseVars, apart>>

\* The calls of atomicWrite one indexer after another makes, crashes included.
SpecWrite == InitWrite /\ [][NextWrite]_vars

(***************************************************************************)
(* mapItemToIndexedPlugin naming one item, on its own                      *)
(***************************************************************************)
\* Lines 312-322: the file was fetched; its text names the plugin if it parses.
NameFromContent ==
  /\ ppc = "content"
  /\ LET parsed == parsePluginInfo(decoded(decls))
     IN  /\ pluginName' = IF parsed # <<>> THEN parsed[1].name ELSE DefaultName(ItemPath)
         /\ pluginAuthor' = IF parsed # <<>> /\ parsed[1].author # ""
                            THEN parsed[1].author ELSE OwnerLogin
  /\ ppc' = "named"
  /\ UNCHANGED decls

\* Lines 323-325: fetchFileContent threw; the defaults stay.
NameWithoutContent ==
  /\ ppc = "content"
  /\ pluginName' = DefaultName(ItemPath)
  /\ pluginAuthor' = OwnerLogin
  /\ ppc' = "unread"
  /\ UNCHANGED decls

InitParse ==
  /\ InitCrawl
  /\ now = 1
  /\ FetchOff
  /\ WriteOff
  /\ RunOff
  /\ watch = "parse"
  /\ decls \in Files
  /\ ppc = "content"
  /\ pluginName = ""
  /\ pluginAuthor = ""

NextParse ==
  /\ \/ NameFromContent
     \/ NameWithoutContent
  /\ UNCHANGED <<crawlVars, now, watch, fetchVars, writeVars, runVars, apart>>

\* mapItemToIndexedPlugin naming one item, for every file the API can return.
SpecParse == InitParse /\ [][NextParse]_vars

(***************************************************************************)
(* The token of the requests (github-app-auth.ts, run, githubFetchJson).   *)
(*                                                                         *)
(* run() asks getAuthToken for a token once and keeps it in GITHUB_TOKEN;  *)
(* every request of githubFetchJson carries that variable.  Time is in     *)
(* minutes; it passes in the sleeps of githubFetchJson and between cycles. *)
(* A personal access token does not expire; an installation token expires  *)
(* when the server's expires_at says.                                      *)
(***************************************************************************)
PersonalToken == [kind |-> "pat", expires |-> 0]
InstallationToken(expires_at) == [kind |-> "app", expires |-> expires_at]

\* The token is past its expiry at time t.
Expired(token, t) == token.kind = "app" /\ t >= token.expires

\* process.env.GITHUB_APP_* / GITHUB_TOKEN: what the environment configures.
Environments == [app : BOOLEAN, pat : BOOLEAN]

\* run() line 547 calls getAuthToken.
TokenLaunch ==
  /\ tpc = "off"
  /\ tpc' = "auth"
  /\ UNCHANGED <<clock, GITHUB_TOKEN, cachedToken, lastSent>>

\* getAuthToken 121-124: the app is configured and getInstallationToken
\* (69-109) gets a token from the server and caches it.
UseInstallationToken ==
  /\ tpc = "auth"
  /\ \E env \in Environments, life \in 1..MaxTokenLife :
       /\ env.app
       /\ cachedToken = <<>>
       /\ GITHUB_TOKEN' = <<InstallationToken(clock + life)>>
       /\ cachedToken' = <<[token |-> InstallationToken(clock + life),
                            expiresAt |-> clock + life - RefreshEarlyMin]>>
  /\ tpc' = "crawl"
  /\ UNCHANGED <<clock, lastSent>>

\* getAuthToken 112-119 and 125-134: the app is not configured, or the token
\* request failed, and GITHUB_TOKEN is set in the environment.
UsePersonalToken ==
  /\ tpc = "auth"
  /\ \E env \in Environments :
       /\ env.pat
       /\ GITHUB_TOKEN' = <<PersonalToken>>
  /\ tpc' = "crawl"
  /\ UNCHANGED <<clock, cachedToken, lastSent>>

\* getAuthToken 116, 131 throws; run 551-554: process.exit(1).
NoToken ==
  /\ tpc = "auth"
  /\ \E env \in Environments : ~env.pat
  /\ tpc' = "exit"
  /\ UNCHANGED <<clock, GITHUB_TOKEN, cachedToken, lastSent>>

\* githubFetchJson 187-194: fetch(url) with Authorization: Bearer GITHUB_TOKEN.
SendRequest ==
  /\ tpc = "crawl"
  /\ lastSent' = <<[token |-> GITHUB_TOKEN[1], at |-> clock]>>
  /\ UNCHANGED <<tpc, clock, GITHUB_TOKEN, cachedToken>>

\* githubFetchJson 203-221, 228-233: a rate limit was answered; sleep, then
\* the request is sent again.
RateLimitSleep ==
  /\ tpc = "crawl"
  /\ lastSent # <<>>
  /\ lastSent[1].at = clock
  /\ \E minutes \in 1..2 :
       /\ clock + minutes <= MaxClock
       /\ clock' = clock + minutes
  /\ UNCHANGED <<tpc, GITHUB_TOKEN, cachedToken, lastSent>>

\* run 577-578: sleep(CYCLE_DELAY_MS) between two cycles.
InterCycleSleep ==
  /\ tpc = "crawl"
  /\ clock + 1 <= MaxClock
  /\ clock' = clock + 1
  /\ UNCHANGED <<tpc, GITHUB_TOKEN, cachedToken, lastSent>>

InitToken ==
  /\ InitCrawl
  /\ now = 1
  /\ FetchOff
  /\ WriteOff
  /\ RunOff
  /\ ParseOff
  /\ watch = "token"

NextToken ==
  /\ \/ TokenLaunch
     \/ UseInstallationToken
     \/ UsePersonalToken
     \/ NoToken
     \/ SendRequest
     \/ RateLimitSleep
     \/ InterCycleSleep
  /\ UNCHANGED <<crawlVars, now, watch, fetchVars, writeVars, runVars, parseVars, repoVars>>

\* One process, from the token it obtains to the requests that carry it.
SpecToken == InitToken /\ [][NextToken]_vars

(***************************************************************************)
(* The repository crawler (repository-crawler.ts)                          *)
(***************************************************************************)
Repositories == 1..NumRepos

\* The entry of a repository whose clone is about to start (lines 347-352).
InProgress == [success |-> FALSE, plugins_count |-> 0, errors |-> "Processing in progress..."]

\* What crawlSingleRepository can come to: plugins found, a scan that found
\* none and left warnings, or an exception (git clone failed, lines 500-508).
Outcomes ==
  {[plugins_found |-> 1, errors |-> 0, thrown |-> FALSE],
   [plugins_found |-> 0, errors |-> 1, thrown |-> FALSE],
   [plugins_found |-> 0, errors |-> 1, thrown |-> TRUE]}

\* The entry written after the crawl of a repository (lines 363-368, 386-391).
EntryOf(res) ==
  [success |-> ~res.thrown,
   plugins_count |-> res.plugins_found,
   errors |-> IF res.thrown THEN "Failed to crawl"
              ELSE IF res.errors > 0 THEN "warnings" ELSE "none"]

\* initializeState(), lines 140-148.
initializeState == [processed_repositories |-> <<>>, latest_session_statistics |-> <<>>]

\* The crawler_state.json a process was killed in the middle of writing.
CutShort == [text |-> "{ \"last_updated\": "]

\* loadState(), lines 126-138: a missing file and one JSON.parse rejects both
\* give the fresh state.
loadCrawlerState(file) ==
  IF file = <<>> \/ file[1] = CutShort THEN initializeState ELSE file[1]

\* The keys of processed_repositories.
Processed(st) == DOMAIN st.processed_repositories

\* A filter that lets every repository through.
EveryRepositoryNew(st, repo) == TRUE

\* Line 319: !this.state.processed_repositories[repo]
IsNewRepository(st, repo) == repo \notin Processed(st)

RECURSIVE InOrder(_)
InOrder(S) ==
  IF S = {} THEN <<>>
  ELSE LET m == CHOOSE x \in S : \A y \in S : x <= y IN <<m>> \o InOrder(S \ {m})

HowMany(seq, Test(_)) == Cardinality({k \in DOMAIN seq : Test(seq[k])})

\* The counters of the loop: successful++ (line 358), failed++ (line 374).
successful == HowMany(results, LAMBDA r : ~r.thrown)
failedCrawls == HowMany(results, LAMBDA r : r.thrown)

\* The statistics saveIntermediateResults builds, lines 234-251.
IntermediateStatistics(st, currentResults, started) ==
  [started_at |-> started,
   total_found |-> 0,
   already_processed |-> Cardinality(Processed(st)) - Len(currentResults),
   newly_processed |-> Len(currentResults),
   successful |-> HowMany(currentResults, LAMBDA r : r.plugins_found > 0 \/ r.errors = 0),
   failed |-> HowMany(currentResults, LAMBDA r : r.plugins_found = 0 /\ r.errors > 0)]

\* The statistics of the finished session, lines 417-434.
FinalStatistics ==
  [started_at |-> sessionStarted,
   total_found |-> Cardinality(uniqueRepositories),
   already_processed |-> Cardinality(uniqueRepositories) - Len(newRepositories),
   newly_processed |-> Len(newRepositories),
   successful |-> successful,
   failed |-> failedCrawls]

\* new RepositoryCrawler(), lines 110-124: the state is read from the file.
Construct ==
  /\ cpc = "off"
  /\ crawlerState' = loadCrawlerState(crawlerStateFile)
  /\ cpc' = "ready"
  /\ UNCHANGED <<crawlerStateFile, uniqueRepositories, newRepositories, repoIndex,
                 results, sessionStarted, clones, processedAtCall, intact>>

\* crawlRepositories() up to the loop, lines 270-334: the repositories of the
\* input files, without duplicates, and of those the ones not yet processed.
CallCrawlRepositories ==
  /\ cpc \in {"ready", "returned"}
  /\ sessionStarted < MaxSessions
  /\ \E unique \in SUBSET Repositories :
       LET fresh == {r \in unique : IsNewRepository(crawlerState, r)}
       IN /\ uniqueRepositories' = unique
          /\ newRepositories' = InOrder(fresh)
          /\ cpc' = IF fresh = {} THEN "returned" ELSE "mark"
  /\ sessionStarted' = sessionStarted + 1
  /\ repoIndex' = 1
  /\ results' = <<>>
  /\ processedAtCall' = Processed(crawlerState)
  /\ UNCHANGED <<crawlerStateFile, crawlerState, clones, intact>>

\* const repo = newRepositories[i]
Repo == newRepositories[repoIndex]

\* Lines 346-354: the repository is marked and the state is saved.
MarkInProgress ==
  /\ cpc = "mark"
  /\ LET marked == [crawlerState EXCEPT !.processed_repositories =
                      (Repo :> InProgress) @@ @]
     IN /\ crawlerState' = marked
        /\ crawlerStateFile' = <<marked>>
  /\ cpc' = "clone"
  /\ UNCHANGED <<uniqueRepositories, newRepositories, repoIndex, results,
                 sessionStarted, clones, processedAtCall, intact>>

\* Lines 356-393: crawlSingleRepository clones the repository and scans it, or
\* throws; either way the res is kept and the entry replaced in memory.
CrawlSingleRepository ==
  /\ cpc = "clone"
  /\ clones' = [clones EXCEPT ![Repo] = @ + 1]
  /\ \E res \in Outcomes :
       /\ results' = Append(results, res)
       /\ crawlerState' = [crawlerState EXCEPT !.processed_repositories =
                             (Repo :> EntryOf(res)) @@ @]
  /\ cpc' = "save"
  /\ UNCHANGED <<crawlerStateFile, uniqueRepositories, newRepositories, repoIndex,
                 sessionStarted, processedAtCall, intact>>

\* Lines 396-402 and the loop head: the state is saved, then
\* saveIntermediateResults puts its statistics into the state in memory
\* (line 254) and writes crawled_plugins.json only.
SaveAfterRepository ==
  /\ cpc = "save"
  /\ crawlerStateFile' = <<crawlerState>>
  /\ crawlerState' = [crawlerState EXCEPT !.latest_session_statistics =
                        <<IntermediateStatistics(crawlerState, results, sessionStarted)>>]
  /\ repoIndex' = repoIndex + 1
  /\ cpc' = IF repoIndex < Len(newRepositories) THEN "mark" ELSE "finish"
  /\ UNCHANGED <<uniqueRepositories, newRepositories, results, sessionStarted,
                 clones, processedAtCall, intact>>

\* Lines 412-441: the final statistics are put into the state in memory and
\* printed; crawlRepositories returns.
FinishSession ==
  /\ cpc = "finish"
  /\ crawlerState' = [crawlerState EXCEPT !.latest_session_statistics = <<FinalStatistics>>]
  /\ cpc' = "returned"
  /\ UNCHANGED <<crawlerStateFile, uniqueRepositories, newRepositories, repoIndex,
                 results, sessionStarted, clones, processedAtCall, intact>>

\* What a process holds in memory is gone with it.
ForgetCrawler ==
  /\ crawlerState' = initializeState
  /\ uniqueRepositories' = {}
  /\ newRepositories' = <<>>
  /\ repoIndex' = 1
  /\ results' = <<>>
  /\ processedAtCall' = {}

\* The process ends: main() returns after the call, or SIGINT, SIGTERM
\* (lines 770-780) or a kill stops it wherever it is.
ProcessEnds ==
  /\ cpc \in {"ready", "mark", "clone", "save", "finish", "returned"}
  /\ cpc' = "off"
  /\ ForgetCrawler
  /\ UNCHANGED <<crawlerStateFile, sessionStarted, clones, intact>>

\* The process is killed inside the writeFileSync of saveState (line 152),
\* which writes the file in place: what is left is cut short.
KilledInSaveState ==
  /\ cpc \in {"mark", "save"}
  /\ crawlerStateFile' = <<CutShort>>
  /\ intact' = FALSE
  /\ cpc' = "off"
  /\ ForgetCrawler
  /\ UNCHANGED <<sessionStarted, clones>>

InitCrawler ==
  /\ InitCrawl
  /\ now = 1
  /\ FetchOff
  /\ WriteOff
  /\ RunOff
  /\ ParseOff
  /\ watch = "crawler"

NextCrawler ==
  /\ \/ Construct
     \/ CallCrawlRepositories
     \/ MarkInProgress
     \/ CrawlSingleRepository
     \/ SaveAfterRepository
     \/ FinishSession
     \/ ProcessEnds
     \/ KilledInSaveState
  /\ UNCHANGED <<crawlVars, now, watch, fetchVars, writeVars, runVars, parseVars, tokenVars>>

\* Processes of the repository crawler, one after the other, over one output
\* directory.
SpecCrawler == InitCrawler /\ [][NextCrawler]_vars

(***************************************************************************)
(* Properties of the crawl                                                 *)
(***************************************************************************)
IndexItems(f) == IF f = <<>> THEN <<>> ELSE f[1].items

\* What of the index file a reader compares, generated_at aside.
IndexContent(f) == IF f = <<>> THEN <<>> ELSE <<f[1].query, f[1].count, f[1].items>>

\* C1: the items array of every index file written holds no two entries with
\* the same (repository full name, file path, content hash) triple, whatever
\* runs, kills, resumes and losses of state.json came before.
C1_NoDuplicateTriples ==
  \A i, j \in DOMAIN IndexItems(outFile) :
    i # j => Triple(IndexItems(outFile)[i]) # Triple(IndexItems(outFile)[j])

\* A run that started from an index file found one of its entries again and
\* added another, and the index was written.
C1_Witness ==
  /\ pc = "done"
  /\ Len(IndexItems(outFile)) >= 2
  /\ newEntries > 0
  /\ processedCount > newEntries

\* The step that issues the first fetchSearchPage request of a resumed run.
FirstRequestStep ==
  /\ pc = "page"
  /\ resumeAt # <<>>
  /\ resumeAt' = <<>>
  /\ pc' # "idle"

\* C2 as stated: a run resumed from a state saved at a page turn issues its
\* first search-page request for the persisted (currentVariant, currentPage).
C2_FirstRequestIsPersistedPair ==
  [][(FirstRequestStep /\ ~failed /\ resumeAt[1].page > 1) => Position = resumeAt[1]]_vars

\* C2 as amended: a resumed run never processes an item whose key is in the
\* persisted seenKeys, and its first search-page request is for the persisted
\* pair or, when the persisted variant yields no page request, for page 1 of
\* a later variant.
C2_ResumesAtOrAfterPersistedPair ==
  /\ [](mapped = {})
  /\ [][FirstRequestStep =>
          \/ Position = resumeAt[1]
          \/ (variantIndex > resumeAt[1].variant /\ state.currentPage = 1)]_vars

\* A run loaded (variant 1, page 2) and a non-empty seenKeys from state.json and
\* stands at that pair, about to request the page.
C2_Witness ==
  /\ pc = "page"
  /\ resumeAt = <<Position>>
  /\ variantIndex = 1
  /\ state.currentPage = 2
  /\ loadedSeen # {}

\* C3 as stated: when a page fetch has thrown, the state persisted at the end of
\* the run still holds the pair of the failed page.
C3_FailedPageStaysCurrent ==
  (pc = "done" /\ errAt # <<>>) =>
     /\ stateFile # <<>>
     /\ stateFile[1].currentVariant = errAt[1].variant
     /\ stateFile[1].currentPage = errAt[1].page

\* C4: while every item the search has returned in this run is already in the
\* index file, no step changes the file's query, count, items or their order.
C4_NoNewDataKeepsIndex ==
  [][allKnown' => IndexContent(outFile') = IndexContent(outFile)]_vars

\* A run over an index of two entries processed items, found nothing new and
\* completed.
C4_Witness ==
  /\ pc = "done"
  /\ allKnown
  /\ processedCount > 0
  /\ Len(IndexItems(outFile)) >= 2

\* C6: after a page with fewer than PerPage (and at least one) items has been
\* processed, the page loop is left for the next variant, which starts at page
\* 1, and no search request of this run is for the finished variant again.
C6_ShortPageEndsVariant ==
  /\ [](pc \in {"page", "items", "checkpoint"} => variantIndex \notin closed)
  /\ [][(pc = "items" /\ itemIdx > Len(items) /\ Len(items) < PerPage /\ pc' # "idle")
          => (pc' = "variant" /\ variantIndex' = variantIndex + 1)]_vars
  /\ [][(pc = "variant" /\ pc' = "page" /\ (variantIndex - 1) \in closed)
          => (state'.currentVariant = variantIndex /\ state'.currentPage = 1
              /\ stateFile' = <<state'>>)]_vars

\* Variant 0 ended on a short page whose items were processed; the crawl stands
\* at page 1 of variant 1.
C6_Witness ==
  /\ pc = "page"
  /\ 0 \in closed
  /\ variantIndex = 1
  /\ state.currentVariant = 1
  /\ state.currentPage = 1
  /\ processedCount > 0

\* C7: when runOnce has completed, every entry it found is in the index file
\* and state.json holds currentVariant 0, currentPage 1, no seenKeys and a
\* lastFullScanAt.
C7_CycleCompletion ==
  pc = "done" =>
     /\ found \subseteq IndexKeys(outFile)
     /\ stateFile = <<state>>
     /\ state.currentVariant = 0
     /\ state.currentPage = 1
     /\ state.seenKeys = {}
     /\ state.lastFullScanAt # "null"

\* A completed cycle whose new entries were written by the final save.
C7_Witness ==
  /\ pc = "done"
  /\ newEntries > lastFlushedNewEntries
  /\ found # {}
  /\ variantIndex = NumVariants

(***************************************************************************)
(* Properties of githubFetchJson                                           *)
(***************************************************************************)
LastStatus == IF lastRes = <<>> THEN 0 ELSE lastRes[1].status

\* C5: once a 403 with remaining quota 0 has announced the reset time T, no
\* request of the call is issued before T.
C5_PrimaryLimitHonoured == fpc = "request" => now >= notBefore

\* A 403 announced a reset time later than the start of the call, and the retry
\* is issued at that time plus the safety margin.
C5_Witness ==
  /\ fpc = "request"
  /\ LastStatus = 403
  /\ notBefore > StartMs
  /\ now = notBefore + SafetyMarginMs
  /\ requests >= 2

\* C8 as stated: the "403 after retries" error is thrown only after the call
\* has received MaxAttempts secondary-limit 403 responses.
C8_FatalOnlyAfterSixSecondary ==
  (fpc = "thrown" /\ result.kind = "403 after retries") => secondary >= MaxAttempts

\* C9: as long as every response has been a 429 the call has slept once per
\* response and is retrying, and when a 2xx follows it returns that body.
C9_TooManyRequestsRetried ==
  /\ (prior429 /\ LastStatus = 429) => (fpc = "request" /\ sleeps = requests - 1)
  /\ (prior429 /\ LastStatus = 200) =>
        (fpc = "returned" /\ result = [kind |-> "data", status |-> 200, body |-> lastRes[1].body])

\* MaxAttempts responses of 429, then a 200 whose body is returned.
C9_Witness ==
  /\ fpc = "returned"
  /\ prior429
  /\ requests = MaxAttempts + 1
  /\ sleeps = MaxAttempts
  /\ result.body = "body-b"

OtherStatus(st) == st # 0 /\ st \notin {403, 429} /\ ~(st >= 200 /\ st <= 299)

\* C10: a status that is not 2xx, 403 or 429 makes the call throw an error that
\* carries the status and the body, with no sleep and no further request.
C10_OtherStatusFailsAtOnce ==
  /\ [](OtherStatus(LastStatus) =>
          /\ fpc = "thrown"
          /\ result.status = LastStatus
          /\ result.body = lastRes[1].body)
  /\ [][(fpc = "request" /\ lastRes' # <<>> /\ OtherStatus(lastRes'[1].status)) =>
          (now' = now /\ sleeps' = sleeps /\ requests' = requests)]_vars
  /\ [][fpc = "thrown" => (fpc' = "thrown" /\ requests' = requests)]_vars

\* After two retries a 500 arrives and is thrown with its body.
C10_Witness ==
  /\ fpc = "thrown"
  /\ result = [kind |-> "http error", status |-> 500, body |-> "body-b"]
  /\ requests = 3
  /\ sleeps = 2

(***************************************************************************)
(* Properties of atomicWrite                                               *)
(***************************************************************************)
\* C11: at every instant, a crash at any step of atomicWrite included, the
\* state file and the index file are each absent or hold a whole document, and
\* the file being written holds either what it held before the call or the
\* whole new document.
C11_ReadersSeeWholeFiles ==
  /\ \A path \in {STATE_FILE, OUT_FILE} :
       disk[path] = <<>> \/ disk[path][1].chunks = ContentChunks
  /\ disk[filePath] \in {previous, Whole(content)}

\* The process crashed half way through writing the temporary file, and the
\* target still holds the whole document of an earlier call.
C11_Witness ==
  /\ wpc = "down"
  /\ disk[TmpOf(filePath)] # <<>>
  /\ disk[TmpOf(filePath)][1].chunks \in 1..(ContentChunks - 1)
  /\ previous # <<>>
  /\ disk[filePath] = previous

(***************************************************************************)
(* Properties of run                                                       *)
(***************************************************************************)
\* C12 as stated: a process in whose crawl a search-page fetch failed for good
\* has, once it is over, exited with a non-zero code.
C12_FatalFetchFailureExitsNonZero ==
  (rpc = "off" /\ errAt # <<>>) => exitCode = <<1>>

\* run() is between authentication and exit.
InCycles == rpc \in {"call", "running", "sleep"}

\* runOnce has just returned or thrown.
CycleOver == rpc = "running" /\ pc \in {"done", "threw"}

\* C13: with CONTINUOUS, a cycle that ends, by return or by throw, is followed
\* by the inter-cycle sleep and the sleep by the next call of runOnce, and the
\* process never ends by itself; without CONTINUOUS, runOnce is called once,
\* no sleep is made, and run() is over when that call is: exit code 0 means
\* exactly one cycle ran.
C13_CyclesRepeatOrRunOnce ==
  /\ [][(CONTINUOUS /\ InCycles) => rpc' # "off"]_vars
  /\ [][(CONTINUOUS /\ CycleOver /\ rpc' # rpc) => rpc' = "sleep"]_vars
  /\ [][(rpc = "sleep" /\ rpc' # rpc) => (rpc' = "call" /\ naps' = naps + 1)]_vars
  /\ [][(rpc = "call" /\ rpc' # rpc) => (rpc' = "running" /\ cycle' = cycle + 1)]_vars
  /\ []((CONTINUOUS /\ InCycles) => naps = (IF rpc = "call" THEN cycle ELSE cycle - 1))
  /\ [](~CONTINUOUS => (cycle <= 1 /\ naps = 0))
  /\ [][(~CONTINUOUS /\ CycleOver /\ rpc' # rpc) => rpc' = "off"]_vars
  /\ [](exitCode = <<0>> => (~CONTINUOUS /\ cycle = 1))

\* A continuous process is inside its second cycle, after one sleep, and its
\* first cycle ended by a throw: it never came to write state.json.
C13_Witness ==
  /\ CONTINUOUS
  /\ rpc = "running"
  /\ cycle = 2
  /\ naps = 1
  /\ pc = "idle"
  /\ stateFile = <<>>

(***************************************************************************)
(* Properties of the start of runOnce                                      *)
(***************************************************************************)
\* state.json is absent, is not JSON, or holds a version other than "1.0".
Unusable(f) == f = <<>> \/ f[1] = Unparseable \/ f[1].version # "1.0"

\* The step in which runOnce loads or initialises its state.
StartStep == pc \in {"idle", "done"} /\ pc' = "variant"

\* C14: when runOnce begins with a state.json that is absent, unparseable or of
\* another version, it begins from the fresh state (variant 0, page 1, no seen
\* keys, no cached repository, lastFullScanAt null) and has written that state
\* to state.json before the page loop, which issues the search requests, begins.
C14_UnusableStateStartsFresh ==
  /\ [][(StartStep /\ Unusable(stateFile)) =>
          (state' = FreshState /\ stateFile' = <<FreshState>> /\ lastReq' = <<>>)]_vars
  /\ []((startedFrom \in {"absent", "unparseable", "version"} /\ pc = "variant"
          /\ variantIndex = 0) =>
          (state = FreshState /\ stateFile = <<FreshState>>))

\* runOnce has begun from a state.json of another version that named variant
\* 1, page 2 and a seen key; it stands before its first variant.
C14_Witness ==
  /\ startedFrom = "version"
  /\ pc = "variant"
  /\ state = FreshState
  /\ stateFile = <<FreshState>>
  /\ outFile # <<>>

(***************************************************************************)
(* Properties of the naming of an item                                     *)
(***************************************************************************)
KindsIn(ds) == {ds[i] : i \in DOMAIN ds}

\* The identifier of the class a declaration declares.
IdOf(kind) ==
  CASE kind = "rust" -> "Foo"
    [] kind = "cov" -> "Bar"
    [] kind = "qualified" -> "Qux"
    [] kind = "prefixed" -> "Helper"
    [] kind = "plain" -> "Cfg"

\* Declarations of a class that inherits from RustPlugin or CovalencePlugin.
Inheriting == {"rust", "cov", "qualified"}

\* Declarations the class pattern matches: the base name stands right after
\* the colon and begins with RustPlugin or CovalencePlugin.
Recognised == {"rust", "cov", "prefixed"}

RECURSIVE FirstOf(_, _)
FirstOf(ds, kinds) ==
  IF Head(ds) \in kinds THEN Head(ds) ELSE FirstOf(Tail(ds), kinds)

\* The two-argument Info attribute names the plugin.
InfoWins ==
  "info2" \in KindsIn(decls) => (pluginName = "Backpack" /\ pluginAuthor = "Ann")

RequestsInOrder == ordered

CurrentVariantGrows ==
  /\ (pc \notin {"idle", "done", "finalState"} /\ pc' # "idle")
       => state'.currentVariant >= state.currentVariant
  /\ (stateFile # <<>> /\ stateFile' # <<>> /\ pc # "finalState")
       => stateFile'[1].currentVariant >= stateFile[1].currentVariant

C16_RequestsAscend == []RequestsInOrder /\ [][CurrentVariantGrows]_vars

\* The last variant's second page has been requested, after its first.
C16_Witness ==
  /\ watch = "order"
  /\ lastReq = <<[variant |-> NumVariants - 1, page |-> 2]>>
  /\ state.currentVariant = NumVariants - 1
  /\ ordered

\* C17: when the count reported for variant i's query is zero, or the
\* requested page holds no item, no item is processed, the page counter of
\* variant i is not advanced (in memory or in state.json), and the crawl moves
\* on to variant i+1, which it enters at page 1, persisted.
NothingFound == outcome' \in {"count0", "empty"}

LeavesPageLoop == pc = "page" /\ pc' = "variant" /\ state.currentPage <= PageCap

EntersAfterNothingFound ==
  pc = "variant" /\ pc' = "page" /\ outcome \in {"count0", "empty"}

NothingFoundStep ==
  (LeavesPageLoop /\ NothingFound) =>
     /\ processedCount' = processedCount
     /\ state' = state
     /\ existingMap' = existingMap
     /\ stateFile' = stateFile
     /\ variantIndex = state.currentVariant
     /\ variantIndex' = variantIndex + 1

NextVariantStep ==
  EntersAfterNothingFound =>
     /\ state'.currentVariant = variantIndex
     /\ state'.currentVariant = state.currentVariant + 1
     /\ state'.currentPage = 1
     /\ stateFile' = saveState(state')

C17_NothingFoundMovesOn == [][NothingFoundStep /\ NextVariantStep]_vars

\* The second page of variant 0 came back empty after a full first page, and
\* the crawl stands at the first page of variant 1.
C17_Witness ==
  /\ outcome = "empty"
  /\ lastReq = <<[variant |-> 0, page |-> 2]>>
  /\ pc = "page"
  /\ Position = [variant |-> 1, page |-> 1]
  /\ stateFile = saveState(state)

\* A fetchSearchPage request is issued, for the pair Position.
RequestStep ==
  /\ pc = "page"
  /\ state.currentPage <= PageCap
  /\ (pc' = "items" \/ outcome' \in {"empty", "pageErr"})

\* A full page below the page cap was the last one requested in this run.
AfterFullPage == expect # <<>>

\* C18 as stated: after a full page p < 10 of variant i, the next search-page
\* request is for (i, p+1), also when no request has failed in between.
C18_NextRequestIsNextPage ==
  [][(RequestStep /\ AfterFullPage /\ outcome # "countErr")
       => Position = expect[1]]_vars

\* The page loop is left because the page counter is past the cap.
PastTheCap == pc = "page" /\ state.currentPage > PageCap

FullPageStep ==
  /\ (pc = "items" /\ pc' # "items" /\ pc' # "idle" /\ expect' # <<>>) =>
        /\ stateFile' = saveState(state')
        /\ state'.currentPage = state.currentPage + 1
        /\ expect' = <<[variant |-> state.currentVariant, page |-> state.currentPage + 1]>>
        /\ pc' = "page"
  /\ RequestStep =>
        /\ stateFile = saveState(state)
        /\ state.currentVariant = variantIndex
  /\ (RequestStep /\ AfterFullPage) =>
        \/ outcome = "items" /\ Position = expect[1]
        \/ /\ outcome \in {"count0", "countErr"}
           /\ Position.variant > expect[1].variant
           /\ Position.page = 1
  /\ (PastTheCap /\ pc' # "idle") =>
        /\ pc' = "variant"
        /\ variantIndex' = variantIndex + 1
        /\ lastReq' = lastReq
  /\ (pc = "variant" /\ pc' = "page" /\ state.currentPage > PageCap
        /\ lastReq = <<[variant |-> state.currentVariant, page |-> PageCap]>>) =>
        /\ Position' = [variant |-> state.currentVariant + 1, page |-> 1]
        /\ stateFile' = saveState(state')

\* C18, amended: after a full page p < 10 of variant i the state with
\* currentPage = p+1 is persisted, and the next search-page request of the run
\* is for (i, p+1), unless the count request made before it reports zero or
\* fails: then it is for page 1 of a later variant. Every request is for the
\* persisted pair. After a full page 10 the page loop ends without a request
\* and variant i+1 is entered at page 1. No request is for a page above 10.
C18_NextPageUnlessCountEndsVariant ==
  /\ [][FullPageStep]_vars
  /\ [](lastReq # <<>> => lastReq[1].page \in 1..PageCap)

\* Page 1 of variant 0 was full, the count request before its page 2 reported
\* zero, and page 1 of variant 1 has been requested.
C18_Witness ==
  /\ watch = "order"
  /\ lastReq = <<[variant |-> 1, page |-> 1]>>
  /\ state.currentVariant = 1
  /\ pc = "items"
  /\ Len(items) = PerPage
  /\ \A i \in DOMAIN items : itemKey(items[i]) \in state.seenKeys

\* The tenth page of a variant was full and the variant has been left.
C18_WitnessCap ==
  /\ watch = "order"
  /\ lastReq = <<[variant |-> 0, page |-> PageCap]>>
  /\ state.currentPage = PageCap + 1
  /\ pc = "variant"
  /\ variantIndex = 1

\* The CrawlState in state.json.
Persisted == stateFile[1]

ValidVariant == Persisted.currentVariant \in 0..(NumVariants - 1)

\* C19 as stated: every CrawlState written to disk has currentPage between 1
\* and the page cap, and a currentVariant that is an index of the variant list.
C19_PersistedPageWithinCap ==
  stateFile # <<>> => (Persisted.currentPage \in 1..PageCap /\ ValidVariant)

\* C19, amended: every CrawlState written to disk has currentPage between 1
\* and one more than the page cap, and a currentVariant that is an index of
\* the variant list.
C19_PersistedPageAtMostOnePastCap ==
  stateFile # <<>> => (Persisted.currentPage \in 1..(PageCap + 1) /\ ValidVariant)

\* The tenth page of the last variant has been processed and the state saved.
C19_Witness ==
  /\ stateFile # <<>>
  /\ Persisted.currentPage = PageCap + 1
  /\ Persisted.currentVariant = NumVariants - 1
  /\ lastReq = <<[variant |-> NumVariants - 1, page |-> PageCap]>>

\* writeUnifiedOutput is called in this step.
IndexWritten == flushes' > flushes

\* C20: in the item loop the index file is written only when the count of
\* processed items reaches a multiple of the checkpoint interval and an entry
\* has been added to the in-memory map since the last index write; without such
\* an entry neither a periodic checkpoint nor the final save writes the file.
C20_IndexWrittenOnlyWithNewEntries ==
  [][IndexWritten =>
       /\ pc \in {"items", "final"}
       /\ newEntries' > lastFlushedNewEntries
       /\ IndexKeys(outFile) # IndexKeys(outFile')
       /\ IndexKeys(outFile) \subseteq IndexKeys(outFile')
       /\ pc = "items" => (processedCount' > 0 /\ processedCount' % CheckpointEvery = 0)]_vars

\* A periodic checkpoint has written the index; its state is about to be saved.
C20_Witness ==
  /\ watch = "flush"
  /\ pc = "checkpoint"
  /\ flushes = 1
  /\ processedCount = CheckpointEvery
  /\ newEntries > lastFlushedNewEntries

\* A multiple of the interval was reached with nothing new: no index write.
C20_WitnessNoWrite ==
  /\ watch = "flush"
  /\ pc = "items"
  /\ processedCount = CheckpointEvery
  /\ newEntries = 0
  /\ flushes = 0

\* Keys of the in-memory output map that the index file on disk does not hold.
MapKeys == {indexedKey(existingMap[i]) : i \in DOMAIN existingMap}

Unsaved == MapKeys \ IndexKeys(outFile)

\* C21: at every point of a run the entries of the in-memory map that are
\* absent from the index file number at most the checkpoint cadence.  Between
\* two items they number at most (processed items) mod cadence, which is below
\* the cadence; one more is held while the item that reaches the cadence is
\* being processed.
C21_UnsavedWithinCadence ==
  /\ Cardinality(Unsaved) <= processedCount % CheckpointEvery
  /\ Cardinality(Unsaved) + 1 <= CheckpointEvery

\* An entry is held in memory only, one item short of the checkpoint.
C21_Witness ==
  /\ watch = "flush"
  /\ pc = "items"
  /\ Cardinality(Unsaved) = CheckpointEvery - 1
  /\ processedCount % CheckpointEvery = CheckpointEvery - 1

\* The entry of the in-memory map with the key of the item, if any.
EntriesFor(map, item) == {i \in DOMAIN map : indexedKey(map[i]) = itemKey(item)}

\* An item's processing ends in this step without an error.
ItemProcessed == pc = "items" /\ processedCount' = processedCount + 1

\* Fetching or parsing the item's file failed.
ContentFailed == ppc' \in {"unread", "unparsed"}

\* C22: when fetching or parsing the file content fails for an item whose
\* repository metadata was resolved, the item is still marked seen and is in
\* the output map, and the entry added for it has the file name without
\* extension as plugin_name and the repository owner login as plugin_author.
C22_ContentFailureKeepsItem ==
  [][(ItemProcessed /\ ContentFailed) =>
       LET item == items[itemIdx]
       IN  /\ itemKey(item) \in state'.seenKeys
           /\ item.full_name \in state'.repoCache
           /\ EntriesFor(existingMap', item) # {}
           /\ EntriesFor(existingMap, item) = {} =>
                \A i \in EntriesFor(existingMap', item) :
                   /\ existingMap'[i].plugin_name = FileStem(item.path)
                   /\ existingMap'[i].plugin_author = LoginOf(item.full_name)]_vars

\* The file of an item could not be fetched; its entry carries the defaults.
C22_Witness ==
  /\ watch = "name"
  /\ ppc = "unread"
  /\ pc = "items"
  /\ itemIdx = 2
  /\ newEntries = 1
  /\ itemKey(items[1]) \in state.seenKeys
  /\ \E i \in DOMAIN existingMap :
        /\ indexedKey(existingMap[i]) = itemKey(items[1])
        /\ existingMap[i].plugin_name = FileStem(items[1].path)
        /\ existingMap[i].plugin_author = LoginOf(items[1].full_name)

\* An item that is not yet seen is left behind without having been processed:
\* mapItemToIndexedPlugin threw.
ItemFailed ==
  /\ pc = "items"
  /\ itemIdx' = itemIdx + 1
  /\ processedCount' = processedCount
  /\ itemKey(items[itemIdx]) \notin state.seenKeys

\* The item loop of a page is left.
PageDone == pc = "items" /\ pc' \in {"page", "variant"}

ItemErrorStep ==
  /\ ItemFailed =>
       /\ existingMap' = existingMap
       /\ state' = state
       /\ newEntries' = newEntries
       /\ files' = files
       /\ items' = items
       /\ pc' = "items"
  /\ PageDone =>
       /\ itemIdx > Len(items)
       /\ state'.currentPage = state.currentPage + 1
       /\ stateFile' = saveState(state')
       /\ pc' = "variant" <=> Len(items) < PerPage
       /\ pc' = "variant" => variantIndex' = variantIndex + 1

\* C23: an error raised by mapItemToIndexedPlugin for one item skips only that
\* item: the output map and seenKeys stay as they are, the loop goes on to the
\* next item, the page is left only when every item has been visited, and the
\* page or variant transition depends on the length of the page alone.
C23_ItemErrorSkipsOnlyItem == [][ItemErrorStep]_vars

\* The first item of a full page failed and the second one was processed.
C23_Witness ==
  /\ pc = "items"
  /\ Len(items) = PerPage
  /\ itemIdx = 3
  /\ processedCount = 1
  /\ itemKey(items[1]) \notin state.seenKeys
  /\ itemKey(items[2]) \in state.seenKeys
  /\ \A i \in DOMAIN existingMap : indexedKey(existingMap[i]) # itemKey(items[1])

\* C24: within one process, repository metadata is successfully fetched at
\* most once per repository full name: no name stands twice among the
\* repositories fetched, through all the cycles of the process, and every
\* repository fetched is in the cache of the running cycle.
C24_RepoFetchedOnce ==
  /\ \A i, j \in DOMAIN repoFetches : repoFetches[i] = repoFetches[j] => i = j
  /\ pc \notin {"idle", "done"} => \A i \in DOMAIN repoFetches : repoFetches[i] \in state.repoCache

\* In a second cycle both items of a repository have been processed again, and
\* the repository has been fetched once, in the first cycle.
C24_Witness ==
  /\ watch = "repos"
  /\ state.lastFullScanAt = "iso"
  /\ processedCount = 2
  /\ newEntries = 0
  /\ repoFetches = <<1>>
  /\ {itemKey(SearchItem(1)), itemKey(SearchItem(2))} \subseteq state.seenKeys

\* C25: whenever state.json holds a non-empty seenKeys, every key in it has
\* its entry in the index file on disk.
C25_SeenKeysAreInIndex ==
  stateFile # <<>> => Persisted.seenKeys \subseteq IndexKeys(outFile)

\* The entries of an index file, each with all its fields.
IndexEntries(f) == IF f = <<>> THEN {} ELSE {f[1].items[i] : i \in DOMAIN f[1].items}

\* The entries of the in-memory map.
MapEntries == {existingMap[i] : i \in DOMAIN existingMap}

\* C26: a run never removes or modifies an entry of the index it loaded: no
\* step takes an entry out of the index file or changes a field of it, and
\* while a run goes on its map holds every entry of the file, also after the
\* crawl has found the same identity triple again.
C26_LoadedEntriesKept ==
  /\ [][IndexEntries(outFile) \subseteq IndexEntries(outFile')]_vars
  /\ [](pc \notin {"idle", "done"} => IndexEntries(outFile) \subseteq MapEntries)

\* A later run has found the entry of an earlier run again, with a new one
\* beside it, and has written the index: the old entry keeps its timestamp.
C26_Witness ==
  /\ pc = "checkpoint"
  /\ processedCount = 2
  /\ newEntries = 1
  /\ Len(outFile[1].items) = 2
  /\ outFile[1].items[1].indexed_at > outFile[1].items[2].indexed_at
  /\ indexedKey(outFile[1].items[2]) \in state.seenKeys

\* The cycle-completion reset of lines 534-538 is made in this step.
FullScanRecorded ==
  /\ pc = "finalState"
  /\ pc' = "done"
  /\ state'.lastFullScanAt = "iso"
  /\ state'.seenKeys = {}
  /\ state'.currentVariant = 0
  /\ state'.currentPage = 1

\* C27: lastFullScanAt is set, and the position and seenKeys are reset, only
\* at the end of a cycle without a page-fetch error: a cycle in which a page
\* fetch failed does not record a full scan.
C27_FullScanOnlyWithoutPageError == [][FullScanRecorded => errAt = <<>>]_vars

\* C28: every request sent by githubFetchJson carries a token that is still
\* valid when the request is sent.
C28_RequestsCarryValidToken ==
  lastSent # <<>> => ~Expired(lastSent[1].token, lastSent[1].at)

(***************************************************************************)
(* Properties of the repository crawler                                    *)
(***************************************************************************)
\* What crawler_state.json holds for a repository: <<>> or <<entry>>.
OnDisk(repo) ==
  LET st == loadCrawlerState(crawlerStateFile)
  IN  IF repo \in Processed(st) THEN <<st.processed_repositories[repo]>> ELSE <<>>

\* The clone of the current repository is about to start, and
\* crawler_state.json names the repository as in progress.
MarkedBeforeClone == cpc = "clone" => OnDisk(Repo) = <<InProgress>>

\* A step that starts a clone starts that of a repository that was not in
\* processed_repositories when the call began.
ClonedRepositoryWasNew ==
  \A r \in Repositories : clones'[r] # clones[r] => r \notin processedAtCall

\* No repository has been cloned twice.
ClonedOnce == \A r \in Repositories : clones[r] <= 1

\* C29: when the clone of a repository starts, crawler_state.json already
\* holds the repository in processed_repositories, marked in progress with
\* success = false; a call of crawlRepositories clones no repository that
\* processed_repositories held when the call began; and as long as every
\* saveState has run to its end no repository is cloned twice, by whatever
\* processes and calls, whether its crawl succeeded, failed or was
\* interrupted.
C29_ProcessedNeverClonedAgain ==
  /\ []MarkedBeforeClone
  /\ [][ClonedRepositoryWasNew]_vars
  /\ [](intact => ClonedOnce)

\* A process was stopped while repository 1 was in progress and the crawl of
\* repository 2 failed; a later call was given both and has returned, and
\* each of them has been cloned once.
C29_Witness ==
  /\ cpc = "returned"
  /\ intact
  /\ uniqueRepositories = {1, 2}
  /\ OnDisk(1) = <<InProgress>>
  /\ OnDisk(2) # <<>>
  /\ OnDisk(2)[1].errors = "Failed to crawl"
  /\ clones[1] = 1
  /\ clones[2] = 1

\* crawlRepositories has returned after processing at least one repository.
SessionCompleted == cpc = "returned" /\ newRepositories # <<>>

\* The latest_session_statistics of crawler_state.json: <<>> or <<statistics>>.
StatisticsOnDisk == loadCrawlerState(crawlerStateFile).latest_session_statistics

\* C30: when crawlRepositories has returned after processing at least one new
\* repository, the latest_session_statistics of crawler_state.json are those
\* of the session that has finished, with its final totals.
C30_FinalStatisticsOnDisk == SessionCompleted => StatisticsOnDisk = <<FinalStatistics>>

====
